---- MODULE Spec2Model ----
(***************************************************************************)
(* Feature pipeline of geoscore_de: the Feature capability                 *)
(* (features/base.py), the feature-engineering capability                  *)
(* (feature_engineering/base.py) and the FeatureMatrixBuilder              *)
(* (features/matrix_builder.py).                                           *)
(*                                                                         *)
(* A data frame is a record [columns, rows]: columns is the sequence of    *)
(* column names (strings), rows the sequence of rows, each a sequence of   *)
(* cells as long as columns.  A cell is a tuple of integers: the empty     *)
(* tuple is the null (NaN/None), a number n is <<n>>, a code string is the *)
(* tuple of its digits.                                                    *)
(***************************************************************************)
EXTENDS Integers, Sequences, FiniteSets, TLC

(***************************************************************************)
(* Bounds of the model.                                                    *)
(***************************************************************************)
MaxKey == 2
MaxRows == 2
MaxFeatures == 2
MaxCalls == 2
MaxTransforms == 2
MaxColumns == 3
MaxPatterns == 2

MaxGroup == 3

(***************************************************************************)
(* Cells and small helpers.                                                *)
(***************************************************************************)
Null == <<>>

IsNull(c) == c = Null

Num(n) == <<n>>

Range(s) == {s[i] : i \in 1..Len(s)}

SeqsUpTo(S, n) == UNION {[1..k -> S] : k \in 0..n}

RECURSIVE Flatten(_)
Flatten(ss) == IF ss = <<>> THEN <<>> ELSE Head(ss) \o Flatten(Tail(ss))

\* the body applied to a value: names the result of a call for what follows
With(value, Body(_)) == Body(value)

Frame(cols, rows) == [columns |-> cols, rows |-> rows]

NoFrame == Frame(<<>>, <<>>)

HasCol(df, c) == c \in Range(df.columns)

\* position of the first column named c (0 when absent)
ColIndex(df, c) ==
    IF HasCol(df, c)
    THEN CHOOSE i \in 1..Len(df.columns) :
            df.columns[i] = c /\ \A j \in 1..(i - 1) : df.columns[j] # c
    ELSE 0

IsUnique(s) == \A i, j \in 1..Len(s) : s[i] = s[j] => i = j

\* the sequence s without the positions in the set drop
RECURSIVE Without(_, _, _)
Without(s, drop, i) ==
    IF i > Len(s) THEN <<>>
    ELSE (IF i \in drop THEN <<>> ELSE <<s[i]>>) \o Without(s, drop, i + 1)

(***************************************************************************)
(* Errors and outcomes of a call.                                          *)
(***************************************************************************)
Err(type, msg, feature, key) ==
    [type |-> type, msg |-> msg, feature |-> feature, key |-> key]

NoErr == Err("", "", "", "")

(***************************************************************************)
(* The pandas operations the pipeline calls.                               *)
(***************************************************************************)
\* the labels of one side of a merge: an overlapping label takes the suffix
Suffixed(labels, overlap, suffix) ==
    [i \in 1..Len(labels) |->
        IF labels[i] \in overlap THEN labels[i] \o suffix ELSE labels[i]]

\* the labels that the suffix made equal to another label of the same side
SuffixDups(labels, renamed) ==
    \E i, j \in 1..Len(labels) :
        i # j /\ renamed[i] = renamed[j] /\ labels[i] # labels[j]

\* the rows of left.merge(right, on=key, how="left"): left order is kept; a
\* left row is paired with every right row of equal key (null equals null),
\* in right order, or with nulls when there is none
MergeRows(left, right, key, rdrop) ==
    LET lk == ColIndex(left, key)
        rk == ColIndex(right, key)
        width == Len(right.columns) - 1
        Matches(l) == {j \in 1..Len(right.rows) : right.rows[j][rk] = l[lk]}
        Paired(l, j) == l \o Without(right.rows[j], rdrop, 1)
        RECURSIVE Pairs(_, _)
        Pairs(l, j) ==
            IF j > Len(right.rows) THEN <<>>
            ELSE (IF j \in Matches(l) THEN <<Paired(l, j)>> ELSE <<>>)
                 \o Pairs(l, j + 1)
        Expand(l) ==
            IF Matches(l) = {} THEN <<l \o [i \in 1..width |-> Null]>>
            ELSE Pairs(l, 1)
    IN  Flatten([i \in 1..Len(left.rows) |-> Expand(left.rows[i])])

\* DataFrame.merge(right, on=key, how="left") with the default suffixes
merge(left, right, key) ==
    IF ~HasCol(left, key) \/ ~HasCol(right, key)
    THEN [ok |-> FALSE, err |-> Err("KeyError", "key", "", key), df |-> NoFrame]
    ELSE
        LET rdrop == {ColIndex(right, key)}
            lcols == left.columns
            rcols == Without(right.columns, rdrop, 1)
            overlap == (Range(lcols) \ {key}) \cap Range(rcols)
            llabels == Suffixed(lcols, overlap, "_x")
            rlabels == Suffixed(rcols, overlap, "_y")
        IN  IF SuffixDups(lcols, llabels) \/ SuffixDups(rcols, rlabels)
            THEN [ok |-> FALSE,
                  err |-> Err("MergeError", "duplicate columns", "", key),
                  df |-> NoFrame]
            ELSE [ok |-> TRUE, err |-> NoErr,
                  df |-> Frame(llabels \o rlabels,
                               MergeRows(left, right, key, rdrop))]

\* dropna(how="all"): only the rows made of nulls alone are removed
dropna_all(df) ==
    Frame(df.columns,
          SelectSeq(df.rows, LAMBDA r : \E i \in 1..Len(r) : ~IsNull(r[i])))

\* DataFrame.dropna(): the rows without any null cell
dropna(df) ==
    Frame(df.columns,
          SelectSeq(df.rows, LAMBDA r : \A i \in 1..Len(r) : ~IsNull(r[i])))

\* fillna with the default of MatrixConfig.fill_value, whatever is configured
fillna_default(df, value) ==
    Frame(df.columns,
          [i \in 1..Len(df.rows) |->
              [j \in 1..Len(df.rows[i]) |->
                  IF IsNull(df.rows[i][j]) THEN Num(0) ELSE df.rows[i][j]]])

\* DataFrame.fillna(value): every null cell replaced by value
fillna(df, value) ==
    Frame(df.columns,
          [i \in 1..Len(df.rows) |->
              [j \in 1..Len(df.rows[i]) |->
                  IF IsNull(df.rows[i][j]) THEN value ELSE df.rows[i][j]]])

\* DataFrame.drop(columns=names): KeyError when a name is not a column
drop(df, names) ==
    IF \E i \in 1..Len(names) : ~HasCol(df, names[i])
    THEN [ok |-> FALSE,
          err |-> Err("KeyError", "not found in axis", "", ""), df |-> df]
    ELSE LET gone == {i \in 1..Len(df.columns) : df.columns[i] \in Range(names)}
         IN  [ok |-> TRUE, err |-> NoErr,
              df |-> Frame(Without(df.columns, gone, 1),
                           [i \in 1..Len(df.rows) |->
                               Without(df.rows[i], gone, 1)])]

\* df[names]: the named columns in the given order; KeyError when one is absent
select(df, names) ==
    IF \E i \in 1..Len(names) : ~HasCol(df, names[i])
    THEN [ok |-> FALSE,
          err |-> Err("KeyError", "not in index", "", ""), df |-> NoFrame]
    ELSE [ok |-> TRUE, err |-> NoErr,
          df |-> Frame(names,
                       [i \in 1..Len(df.rows) |->
                           [j \in 1..Len(names) |->
                               df.rows[i][ColIndex(df, names[j])]]])]

\* df[name] = values: the column is replaced in place, or appended
assign(df, name, values) ==
    IF HasCol(df, name)
    THEN Frame(df.columns,
               [i \in 1..Len(df.rows) |->
                   [j \in 1..Len(df.columns) |->
                       IF df.columns[j] = name THEN values[i]
                       ELSE df.rows[i][j]]])
    ELSE Frame(Append(df.columns, name),
               [i \in 1..Len(df.rows) |-> Append(df.rows[i], values[i])])

(***************************************************************************)
(* Feature-engineering capability (feature_engineering/base.py).           *)
(* A transform instance is [cls, input_columns, output_column].            *)
(***************************************************************************)
FETransform(cls, input_columns, output_column) ==
    [cls |-> cls, input_columns |-> input_columns,
     output_column |-> output_column]

\* a transform of a subtype whose _validate answers hook, with the _apply of
\* MockFeatureEngineering
FESubtype(input_columns, output_column, hook) ==
    [cls |-> "Subtype", input_columns |-> input_columns,
     output_column |-> output_column, hook |-> hook]

\* the subtype validation hook _validate: MockFeatureEngineering accepts
\* every frame, another subtype answers as it is written
validate_hook(transform, df) ==
    IF transform.cls = "MockFeatureEngineering" THEN TRUE ELSE transform.hook

\* validate that checks the input columns alone and never asks the hook
validate_columns_only(transform, df) ==
    \A i \in 1..Len(transform.input_columns) :
        HasCol(df, transform.input_columns[i])

\* BaseFeatureEngineering.validate
validate(transform, df) ==
    LET missing_columns ==
            SelectSeq(transform.input_columns, LAMBDA col : ~HasCol(df, col))
    IN  IF missing_columns # <<>> THEN FALSE
        ELSE IF ~validate_hook(transform, df) THEN FALSE
        ELSE TRUE

\* sum of the cells of one row over the input columns, nulls skipped
RECURSIVE RowSum(_, _, _, _)
RowSum(df, row, cols, i) ==
    IF i > Len(cols) THEN 0
    ELSE LET c == row[ColIndex(df, cols[i])]
         IN  (IF IsNull(c) THEN 0 ELSE c[1]) + RowSum(df, row, cols, i + 1)

\* MockFeatureEngineering._apply: writes the row sums into output_column of
\* the frame it is given and returns its columns AGS and output_column.
\* arg is the given frame as the call leaves it.
apply_body(transform, df) ==
    With(assign(df, transform.output_column,
                [i \in 1..Len(df.rows) |->
                    Num(RowSum(df, df.rows[i], transform.input_columns, 1))]),
         LAMBDA written :
            With(select(written, <<"AGS", transform.output_column>>),
                 LAMBDA picked :
                    [ok |-> picked.ok, err |-> picked.err, df |-> picked.df,
                     arg |-> written]))

\* apply that hands df itself to _apply: the caller's frame is left with
\* the column _apply wrote
apply_in_place(transform, df) ==
    IF ~validate(transform, df)
    THEN [ok |-> FALSE,
          err |-> Err("ValueError",
                      "Input dataframe failed validation checks.", "", ""),
          df |-> NoFrame, arg |-> df, ran |-> FALSE]
    ELSE With(apply_body(transform, df),
              LAMBDA r :
                 [ok |-> r.ok, err |-> r.err, df |-> r.df, arg |-> r.arg,
                  ran |-> TRUE])

\* BaseFeatureEngineering.apply: validation, then _apply on a copy of df.
\* arg is the caller's frame as the call leaves it.
apply(transform, df) ==
    IF ~validate(transform, df)
    THEN [ok |-> FALSE,
          err |-> Err("ValueError",
                      "Input dataframe failed validation checks.", "", ""),
          df |-> NoFrame, arg |-> df, ran |-> FALSE]
    ELSE With(apply_body(transform, df),
              LAMBDA r :
                 [ok |-> r.ok, err |-> r.err, df |-> r.df, arg |-> df,
                  ran |-> TRUE])

(***************************************************************************)
(* Feature capability (features/base.py, features/municipality.py and the  *)
(* MockFeature of the tests).  A feature instance is                       *)
(* [cls, data, before_transforms]: data is the external source it reads,   *)
(* [exists, df] (the frame held by a MockFeature, the parsed content of    *)
(* the file at raw_data_path of a MunicipalityFeature).                    *)
(***************************************************************************)
Source(exists, df) == [exists |-> exists, df |-> df]

Feature(cls, data, before_transforms) ==
    [cls |-> cls, data |-> data, before_transforms |-> before_transforms]

NoFeature == Feature("None", Source(FALSE, NoFrame), <<>>)

\* a transform descriptor resolves to its class unless the module or the
\* class is missing (get_feature_engineering_class)
get_feature_engineering_class(transform_config) ==
    IF transform_config.resolves = "ok"
    THEN [ok |-> TRUE, err |-> NoErr, cls |-> transform_config.class_name]
    ELSE [ok |-> FALSE,
          err |-> Err(transform_config.resolves, "import", "", ""),
          cls |-> ""]

\* BaseFeature.__init__: one transform instance per descriptor, in order
RECURSIVE BaseFeature_init(_, _)
BaseFeature_init(before_transforms, i) ==
    IF i > Len(before_transforms)
    THEN [ok |-> TRUE, err |-> NoErr, before_transforms |-> <<>>]
    ELSE With(get_feature_engineering_class(before_transforms[i]),
              LAMBDA transform_class :
                 IF ~transform_class.ok
                 THEN [ok |-> FALSE, err |-> transform_class.err,
                       before_transforms |-> <<>>]
                 ELSE With(BaseFeature_init(before_transforms, i + 1),
                           LAMBDA rest :
                              IF ~rest.ok THEN rest
                              ELSE [ok |-> TRUE, err |-> NoErr,
                                    before_transforms |->
                                        <<FETransform(
                                            transform_class.cls,
                                            before_transforms[i].input_columns,
                                            before_transforms[i].output_column)>>
                                        \o rest.before_transforms]))

MunicipalityColumns ==
    <<"MU_ID", "Municipality", "Persons", "Area", "Population Density">>

\* MU_ID without the collective-municipality level: characters 0-4 and 9-11
AGSOf(mu_id) ==
    IF IsNull(mu_id) THEN Null
    ELSE SubSeq(mu_id, 1, 5) \o SubSeq(mu_id, 10, 12)

\* load() keeping the frame it read and handing out that very object
load_cached(feature) ==
    IF feature.cls = "MunicipalityFeature"
    THEN IF ~feature.data.exists
         THEN [ok |-> FALSE,
               err |-> Err("FileNotFoundError", "raw_data_path", "", ""),
               df |-> NoFrame, shared |-> FALSE]
         ELSE IF ~HasCol(feature.data.df, "MU_ID")
         THEN [ok |-> FALSE, err |-> Err("KeyError", "MU_ID", "", ""),
               df |-> NoFrame, shared |-> FALSE]
         ELSE [ok |-> TRUE, err |-> NoErr,
               df |-> assign(feature.data.df, "AGS",
                             [i \in 1..Len(feature.data.df.rows) |->
                                 AGSOf(feature.data.df.rows[i][
                                     ColIndex(feature.data.df, "MU_ID")])]),
               shared |-> TRUE]
    ELSE [ok |-> TRUE, err |-> NoErr, df |-> feature.data.df,
          shared |-> TRUE]

\* load(): a MockFeature returns a copy of its frame; a MunicipalityFeature
\* parses its file and appends the AGS column.  shared tells whether the
\* returned frame is the very object the feature holds.
load(feature) ==
    IF feature.cls = "MunicipalityFeature"
    THEN IF ~feature.data.exists
         THEN [ok |-> FALSE,
               err |-> Err("FileNotFoundError", "raw_data_path", "", ""),
               df |-> NoFrame, shared |-> FALSE]
         ELSE [ok |-> TRUE, err |-> NoErr,
               df |-> assign(feature.data.df, "AGS",
                             [i \in 1..Len(feature.data.df.rows) |->
                                 AGSOf(feature.data.df.rows[i][
                                     ColIndex(feature.data.df, "MU_ID")])]),
               shared |-> FALSE]
    ELSE [ok |-> TRUE, err |-> NoErr, df |-> feature.data.df,
          shared |-> FALSE]

\* transform(df): MockFeature returns df as it is; MunicipalityFeature drops
\* MU_ID and Municipality from df in place and returns df.  arg is the frame
\* passed in, as the call leaves it.
transform(feature, df) ==
    IF feature.cls = "MunicipalityFeature"
    THEN With(drop(df, <<"MU_ID", "Municipality">>),
              LAMBDA d : [ok |-> d.ok, err |-> d.err, df |-> d.df,
                          arg |-> d.df])
    ELSE [ok |-> TRUE, err |-> NoErr, df |-> df, arg |-> df]

Event(op, i, df) == [op |-> op, i |-> i, df |-> df]

\* the loop of load_transform over before_transforms: every transform is
\* applied to raw_data, the first failure propagates
RECURSIVE apply_before_transforms(_, _, _)
apply_before_transforms(before_transforms, raw_data, i) ==
    IF i > Len(before_transforms)
    THEN [ok |-> TRUE, err |-> NoErr, engineered_features |-> <<>>,
          raw_data |-> raw_data, trace |-> <<>>]
    ELSE With(apply(before_transforms[i], raw_data),
              LAMBDA result :
                 IF ~result.ok
                 THEN [ok |-> FALSE, err |-> result.err,
                       engineered_features |-> <<>>, raw_data |-> result.arg,
                       trace |-> <<Event("apply", i, raw_data)>>]
                 ELSE With(apply_before_transforms(before_transforms,
                                                   result.arg, i + 1),
                           LAMBDA rest :
                              [ok |-> rest.ok, err |-> rest.err,
                               engineered_features |->
                                   <<result.df>> \o rest.engineered_features,
                               raw_data |-> rest.raw_data,
                               trace |-> <<Event("apply", i, raw_data)>>
                                         \o rest.trace]))

\* the loop of load_transform that joins the engineered features on AGS
RECURSIVE merge_engineered(_, _, _)
merge_engineered(transformed_data, engineered_features, i) ==
    IF i > Len(engineered_features)
    THEN [ok |-> TRUE, err |-> NoErr, df |-> transformed_data]
    ELSE With(merge(transformed_data, engineered_features[i], "AGS"),
              LAMBDA m :
                 IF ~m.ok THEN m
                 ELSE merge_engineered(m.df, engineered_features, i + 1))

\* the outcome of a load_transform call that raised err; data is the loaded
\* frame as the call leaves it
lt_raised(feature, loaded, err, data, trace) ==
    [ok |-> FALSE, err |-> err, df |-> NoFrame,
     feature |-> [feature EXCEPT !.data =
                     IF loaded.shared THEN Source(TRUE, data) ELSE @],
     trace |-> trace]

\* BaseFeature.load_transform.  feature is the instance as the call leaves
\* it; trace lists the calls made, each with the frame it was given.
load_transform(feature) ==
    With(load(feature), LAMBDA loaded :
      IF ~loaded.ok
      THEN lt_raised(feature, loaded, loaded.err, NoFrame,
                     <<Event("load", 0, NoFrame)>>)
      ELSE
        With(apply_before_transforms(feature.before_transforms, loaded.df, 1),
             LAMBDA applied :
          IF ~applied.ok
          THEN lt_raised(feature, loaded, applied.err, applied.raw_data,
                         <<Event("load", 0, NoFrame)>> \o applied.trace)
          ELSE
            With(transform(feature, applied.raw_data), LAMBDA transformed :
              With(<<Event("load", 0, NoFrame)>> \o applied.trace
                   \o <<Event("transform", 0, applied.raw_data)>>,
                   LAMBDA trace :
                IF ~transformed.ok
                THEN lt_raised(feature, loaded, transformed.err,
                               transformed.arg, trace)
                ELSE
                  With(merge_engineered(transformed.df,
                                        applied.engineered_features, 1),
                       LAMBDA merged :
                    IF ~merged.ok
                    THEN lt_raised(feature, loaded, merged.err,
                                   transformed.arg, trace)
                    ELSE [ok |-> TRUE, err |-> NoErr, df |-> merged.df,
                          feature |->
                              [feature EXCEPT !.data =
                                  IF loaded.shared
                                  THEN Source(TRUE, transformed.arg)
                                  ELSE @],
                          trace |-> trace])))))

\* instantiate_feature(config) of features/base.py: the class is built with
\* the descriptor's params and its before_transforms
instantiate_feature(config) ==
    IF config.resolves # "ok"
    THEN [ok |-> FALSE, err |-> Err(config.resolves, "resolve", config.name, ""),
          feature |-> NoFeature]
    ELSE With(BaseFeature_init(config.before_transforms, 1),
              LAMBDA init :
                 IF ~init.ok
                 THEN [ok |-> FALSE, err |-> init.err, feature |-> NoFeature]
                 ELSE [ok |-> TRUE, err |-> NoErr,
                       feature |-> Feature(config.class_name, config.params,
                                           init.before_transforms)])

(***************************************************************************)
(* FeatureMatrixBuilder (features/matrix_builder.py).  The loaded features *)
(* are a dict from name to instance, kept here as the sequence of its      *)
(* items in insertion order.                                               *)
(***************************************************************************)
Item(name, instance) == [name |-> name, instance |-> instance]

Keys(d) == [i \in 1..Len(d) |-> d[i].name]

\* d[name] = instance: an existing key keeps its place, a new one is appended
DictSet(d, name, instance) ==
    IF name \in Range(Keys(d))
    THEN [i \in 1..Len(d) |->
            IF d[i].name = name THEN Item(name, instance) ELSE d[i]]
    ELSE Append(d, Item(name, instance))

\* FeatureMatrixBuilder._instantiate_feature: the class is built from the
\* descriptor's params alone
builder_instantiate_feature(feature_config) ==
    IF feature_config.resolves # "ok"
    THEN [ok |-> FALSE,
          err |-> Err(feature_config.resolves, "resolve",
                      feature_config.name, ""),
          feature |-> NoFeature]
    ELSE [ok |-> TRUE, err |-> NoErr,
          feature |-> Feature(feature_config.class_name,
                              feature_config.params, <<>>)]

\* the loop of load_features: a feature that fails to resolve is skipped
RECURSIVE load_listed_features(_, _, _)
load_listed_features(feature_configs, features, i) ==
    IF i > Len(feature_configs) THEN features
    ELSE With(builder_instantiate_feature(feature_configs[i]),
              LAMBDA feature_instance :
                 IF feature_instance.ok
                 THEN load_listed_features(
                          feature_configs,
                          DictSet(features, feature_configs[i].name,
                                  feature_instance.feature),
                          i + 1)
                 ELSE load_listed_features(feature_configs, features, i + 1))

\* load_features guarding the municipalities feature like a listed one
load_features_lenient(config) ==
    With(builder_instantiate_feature(config.municipalities),
         LAMBDA municipalities :
            [ok |-> TRUE, err |-> NoErr,
             municipalities |-> municipalities.feature,
             features |-> load_listed_features(config.features, <<>>, 1)])

\* FeatureMatrixBuilder.load_features, called by __init__ with no feature
\* loaded: a failure of the municipalities feature propagates
load_features(config) ==
    With(builder_instantiate_feature(config.municipalities),
         LAMBDA municipalities :
            IF ~municipalities.ok
            THEN [ok |-> FALSE, err |-> municipalities.err,
                  municipalities |-> NoFeature, features |-> <<>>]
            ELSE [ok |-> TRUE, err |-> NoErr,
                  municipalities |-> municipalities.feature,
                  features |->
                      load_listed_features(config.features, <<>>, 1)])

\* FeatureMatrixBuilder.get_feature_names
get_feature_names(features) == Keys(features)

\* the prefix given to every column, the join key included
prefixed_all(feature_name, col, join_key) == feature_name \o "_" \o col

\* the prefix build_matrix gives to the columns of a feature
prefixed(feature_name, col, join_key) ==
    IF col # join_key THEN feature_name \o "_" \o col ELSE col

\* df.rename(columns=...) with the prefixed name of every column
rename(df, feature_name, join_key) ==
    Frame([i \in 1..Len(df.columns) |->
              prefixed(feature_name, df.columns[i], join_key)],
          df.rows)

\* a join-key error whose message leaves the feature out
join_key_error_anonymous(feature_name, join_key) ==
    Err("KeyError", "Join key not found in dataframe", "", join_key)

\* the error build_matrix raises for a feature frame without the join key:
\* the message holds the join key and the feature's name
join_key_error(feature_name, join_key) ==
    Err("KeyError", "Join key not found in dataframe", feature_name, join_key)

\* the first loop of build_matrix: load_transform of every feature in dict
\* order, the join-key check and the renaming
RECURSIVE process_features(_, _, _)
process_features(features, join_key, i) ==
    IF i > Len(features)
    THEN [ok |-> TRUE, err |-> NoErr, feature_dfs |-> <<>>,
          features |-> features, trace |-> <<>>]
    ELSE
      With(load_transform(features[i].instance), LAMBDA r :
        With([features EXCEPT ![i].instance = r.feature], LAMBDA after :
          IF ~r.ok
          THEN [ok |-> FALSE, err |-> r.err, feature_dfs |-> <<>>,
                features |-> after,
                trace |-> <<Event("load_transform", i, NoFrame)>>]
          ELSE IF ~HasCol(r.df, join_key)
          THEN [ok |-> FALSE,
                err |-> join_key_error(features[i].name, join_key),
                feature_dfs |-> <<>>, features |-> after,
                trace |-> <<Event("load_transform", i, NoFrame)>>]
          ELSE
            With(process_features(after, join_key, i + 1), LAMBDA rest :
              [ok |-> rest.ok, err |-> rest.err,
               feature_dfs |->
                   <<rename(r.df, features[i].name, join_key)>>
                   \o rest.feature_dfs,
               features |-> rest.features,
               trace |-> <<Event("load_transform", i, NoFrame)>>
                         \o rest.trace])))

\* the merge loop left after its first round
merge_features_first(result_df, feature_dfs, join_key, i) ==
    IF i > Len(feature_dfs)
    THEN [ok |-> TRUE, err |-> NoErr, df |-> result_df]
    ELSE merge(result_df, feature_dfs[i], join_key)

\* the second loop of build_matrix: every feature frame is left-merged onto
\* the running result
RECURSIVE merge_features(_, _, _, _)
merge_features(result_df, feature_dfs, join_key, i) ==
    IF i > Len(feature_dfs)
    THEN [ok |-> TRUE, err |-> NoErr, df |-> result_df]
    ELSE With(merge(result_df, feature_dfs[i], join_key),
              LAMBDA m :
                 IF ~m.ok THEN m
                 ELSE merge_features(m.df, feature_dfs, join_key, i + 1))

\* the missing-value policy of build_matrix
handle_missing_values(result_df, matrix_config) ==
    IF matrix_config.missing_values = "drop" THEN dropna(result_df)
    ELSE IF matrix_config.missing_values = "fill"
    THEN fillna(result_df, matrix_config.fill_value)
    ELSE result_df

\* the text to_csv writes for a cell: nothing for a null, the digits of a
\* number or of a code otherwise
RECURSIVE csv_cell(_)
csv_cell(c) ==
    IF c = <<>> THEN "" ELSE ToString(Head(c)) \o csv_cell(Tail(c))

\* result_df.to_csv(output_path, index=False): the line of the column names
\* and one line per row, no index column
to_csv(df) ==
    [header |-> df.columns,
     lines |-> [r \in 1..Len(df.rows) |->
                   [c \in 1..Len(df.rows[r]) |-> csv_cell(df.rows[r][c])]]]

\* the file written from the merged frame, before the missing-value policy
written_file_early(matrix_config, result_df, merged, file_before) ==
    IF matrix_config.save_output
    THEN [written |-> TRUE, df |-> merged, content |-> to_csv(merged)]
    ELSE file_before

\* the file at output_path after the last step of a build_matrix call that
\* returns result_df (lines 190-194); df is the frame handed to to_csv
written_file(matrix_config, result_df, merged, file_before) ==
    IF matrix_config.save_output
    THEN [written |-> TRUE, df |-> result_df, content |-> to_csv(result_df)]
    ELSE file_before

\* the outcome of a build_matrix call that raised err
bm_raised(err, features, municipalities, feature_dfs, trace) ==
    [ok |-> FALSE, err |-> err, df |-> NoFrame, features |-> features,
     municipalities |-> municipalities, feature_dfs |-> feature_dfs,
     merged |-> NoFrame, trace |-> trace, saved |-> FALSE]

\* a guard that lets an empty feature set through
no_features_unchecked(features) == FALSE

\* "if not self.features" (line 133)
no_features(features) == features = <<>>

\* FeatureMatrixBuilder.build_matrix.  The outcome holds the returned matrix
\* or the raised error, the builder's features as the call leaves them, the
\* renamed feature frames, the merged frame before the missing-value policy,
\* the calls made and whether output_path was written.
build_matrix(features, municipalities, matrix_config) ==
    IF no_features(features)
    THEN bm_raised(Err("ValueError", "No features loaded", "", ""),
                   features, municipalities, <<>>, <<>>)
    ELSE
      With(process_features(features, matrix_config.join_key, 1), LAMBDA p :
        IF ~p.ok
        THEN bm_raised(p.err, p.features, municipalities, <<>>, p.trace)
        ELSE IF p.feature_dfs = <<>>
        THEN bm_raised(Err("ValueError", "No feature data could be loaded",
                           "", ""),
                       p.features, municipalities, <<>>, p.trace)
        ELSE
          With(load_transform(municipalities), LAMBDA base :
            With(p.trace \o <<Event("load_transform", 0, NoFrame)>>,
                 LAMBDA trace :
              IF ~base.ok
              THEN bm_raised(base.err, p.features, base.feature,
                             p.feature_dfs, trace)
              ELSE
                With(merge_features(base.df, p.feature_dfs,
                                    matrix_config.join_key, 1), LAMBDA m :
                  IF ~m.ok
                  THEN bm_raised(m.err, p.features, base.feature,
                                 p.feature_dfs, trace)
                  ELSE
                    With(handle_missing_values(m.df, matrix_config),
                         LAMBDA result_df :
                      [ok |-> TRUE, err |-> NoErr, df |-> result_df,
                       features |-> p.features,
                       municipalities |-> base.feature,
                       feature_dfs |-> p.feature_dfs,
                       merged |-> m.df,
                       trace |->
                           IF matrix_config.save_output
                           THEN trace \o <<Event("to_csv", 0, result_df)>>
                           ELSE trace,
                       saved |-> matrix_config.save_output])))))

(***************************************************************************)
(* Declarative filter (modelling/data_filtering.py, modelling/config.py).  *)
(* A name (of a column, a pattern, the text of a cell) is the sequence of  *)
(* its characters.  The regular expressions covered are those written with *)
(* literals, escapes of non-alphanumeric characters, . * ^ $ and plain     *)
(* character sets; a compiled expression is a sequence of items            *)
(* [kind, chars, star], kind one of "bol", "eol", "any", "set".            *)
(***************************************************************************)
\* the characters that make _compile_pattern read a pattern as an expression
regex_meta ==
    {".", "^", "$", "[", "]", "(", ")", "+", "?", "|", "{", "}", "\\"}

\* the characters re.escape puts a backslash before
escape_special ==
    {"(", ")", "[", "]", "{", "}", "?", "*", "+", "-", "|", "^", "$", "\\",
     ".", "&", "~", "#", " ", "\t", "\n", "\r", "\f"}

\* re.escape(text)
RECURSIVE re_escape(_)
re_escape(text) ==
    IF text = <<>> THEN <<>>
    ELSE (IF Head(text) \in escape_special THEN <<"\\", Head(text)>>
          ELSE <<Head(text)>>) \o re_escape(Tail(text))

\* str.replace(r"\*", ".*"): every backslash-star, left to right
RECURSIVE replace_escaped_star(_)
replace_escaped_star(text) ==
    IF text = <<>> THEN <<>>
    ELSE IF Len(text) >= 2 /\ text[1] = "\\" /\ text[2] = "*"
    THEN <<".", "*">> \o replace_escaped_star(Tail(Tail(text)))
    ELSE <<Head(text)>> \o replace_escaped_star(Tail(text))

ReItem(kind, chars, star) == [kind |-> kind, chars |-> chars, star |-> star]

\* the position of the "]" that closes the set opened before position i
\* (0 when there is none); a "]" right after the "[" is a member
RECURSIVE SetEnd(_, _, _)
SetEnd(text, i, first) ==
    IF i > Len(text) THEN 0
    ELSE IF text[i] = "]" /\ ~first THEN i
    ELSE SetEnd(text, i + 1, FALSE)

\* re.compile(text): the items of the expression, or re.error
RECURSIVE re_compile_from(_, _, _)
re_compile_from(text, i, items) ==
    IF i > Len(text) THEN [ok |-> TRUE, items |-> items]
    ELSE IF text[i] = "*"
    THEN IF items = <<>> \/ items[Len(items)].kind \in {"bol", "eol"}
            \/ items[Len(items)].star
         THEN [ok |-> FALSE, items |-> <<>>]
         ELSE re_compile_from(text, i + 1,
                  [items EXCEPT ![Len(items)].star = TRUE])
    ELSE IF text[i] = "\\"
    THEN IF i = Len(text) THEN [ok |-> FALSE, items |-> <<>>]
         ELSE re_compile_from(text, i + 2,
                  Append(items, ReItem("set", {text[i + 1]}, FALSE)))
    ELSE IF text[i] = "["
    THEN IF SetEnd(text, i + 1, TRUE) = 0 THEN [ok |-> FALSE, items |-> <<>>]
         ELSE re_compile_from(text, SetEnd(text, i + 1, TRUE) + 1,
                  Append(items,
                         ReItem("set",
                                {text[k] :
                                    k \in (i + 1)..(SetEnd(text, i + 1, TRUE) - 1)},
                                FALSE)))
    ELSE IF text[i] \in {"(", ")", "+", "?", "|", "{", "}"}
    THEN [ok |-> FALSE, items |-> <<>>]
    ELSE re_compile_from(text, i + 1,
             Append(items,
                    IF text[i] = "^" THEN ReItem("bol", {}, FALSE)
                    ELSE IF text[i] = "$" THEN ReItem("eol", {}, FALSE)
                    ELSE IF text[i] = "." THEN ReItem("any", {}, FALSE)
                    ELSE ReItem("set", {text[i]}, FALSE)))

re_compile(text) == re_compile_from(text, 1, <<>>)

\* an item that takes one character takes ch
Takes(item, ch) ==
    IF item.kind = "any" THEN ch # "\n" ELSE ch \in item.chars

\* Pattern.fullmatch: the items from the i-th on match name from position j
\* up to its end
RECURSIVE MatchFrom(_, _, _, _)
MatchFrom(items, i, name, j) ==
    IF i > Len(items) THEN j = Len(name) + 1
    ELSE IF items[i].kind = "bol" THEN j = 1 /\ MatchFrom(items, i + 1, name, j)
    ELSE IF items[i].kind = "eol"
    THEN /\ \/ j = Len(name) + 1
            \/ j = Len(name) /\ name[j] = "\n"
         /\ MatchFrom(items, i + 1, name, j)
    ELSE IF items[i].star
    THEN \/ MatchFrom(items, i + 1, name, j)
         \/ /\ j <= Len(name)
            /\ Takes(items[i], name[j])
            /\ MatchFrom(items, i, name, j + 1)
    ELSE /\ j <= Len(name)
         /\ Takes(items[i], name[j])
         /\ MatchFrom(items, i + 1, name, j + 1)

fullmatch(compiled, name) == MatchFrom(compiled.items, 1, name, 1)

\* a warning: its kind ("invalid", "use_features", "omit_features",
\* "column") and the patterns or the column it names
Warning(kind, about) == [kind |-> kind, about |-> about]

\* _compile_pattern: ok is false for the None it returns on re.error, and
\* warnings holds the warning it gives then
compile_pattern(pattern) ==
    With(IF \E k \in 1..Len(pattern) : pattern[k] \in regex_meta
         THEN pattern
         ELSE <<"^">> \o replace_escaped_star(re_escape(pattern)) \o <<"$">>,
         LAMBDA regex :
            With(re_compile(regex), LAMBDA compiled :
                [ok |-> compiled.ok, items |-> compiled.items,
                 warnings |-> IF compiled.ok THEN <<>>
                              ELSE <<Warning("invalid", {pattern})>>]))

\* the inner loop without the check of the columns matched already
RECURSIVE match_columns_again(_, _, _, _)
match_columns_again(columns, compiled, c, matched) ==
    IF c > Len(columns) THEN matched
    ELSE IF fullmatch(compiled, columns[c])
    THEN match_columns_again(columns, compiled, c + 1,
                             Append(matched, columns[c]))
    ELSE match_columns_again(columns, compiled, c + 1, matched)

\* the inner loop of _resolve_feature_patterns: the columns from the c-th on
\* that the compiled pattern matches and that are not matched yet
RECURSIVE match_columns(_, _, _, _)
match_columns(columns, compiled, c, matched) ==
    IF c > Len(columns) THEN matched
    ELSE IF columns[c] \in Range(matched)
    THEN match_columns(columns, compiled, c + 1, matched)
    ELSE IF fullmatch(compiled, columns[c])
    THEN match_columns(columns, compiled, c + 1, Append(matched, columns[c]))
    ELSE match_columns(columns, compiled, c + 1, matched)

\* the loop of _resolve_feature_patterns from the k-th pattern on
RECURSIVE resolve_from(_, _, _, _, _)
resolve_from(columns, patterns, k, matched, warnings) ==
    IF k > Len(patterns) THEN [matched |-> matched, warnings |-> warnings]
    ELSE IF patterns[k] \in Range(columns) /\ patterns[k] \notin Range(matched)
    THEN resolve_from(columns, patterns, k + 1, Append(matched, patterns[k]),
                      warnings)
    ELSE With(compile_pattern(patterns[k]), LAMBDA compiled :
            IF ~compiled.ok
            THEN resolve_from(columns, patterns, k + 1, matched,
                              warnings \o compiled.warnings)
            ELSE resolve_from(columns, patterns, k + 1,
                              match_columns(columns, compiled, 1, matched),
                              warnings))

\* _resolve_feature_patterns(columns, patterns)
resolve_feature_patterns(columns, patterns) ==
    resolve_from(columns, patterns, 1, <<>>, <<>>)

\* the loop that collects the patterns that matched nothing (lines 124-135
\* and 148-157), from the k-th pattern on
RECURSIVE unmatched_from(_, _, _, _, _, _)
unmatched_from(columns, patterns, resolved, k, unmatched, warnings) ==
    IF k > Len(patterns) THEN [unmatched |-> unmatched, warnings |-> warnings]
    ELSE IF patterns[k] \in Range(resolved)
    THEN unmatched_from(columns, patterns, resolved, k + 1, unmatched,
                        warnings)
    ELSE With(compile_pattern(patterns[k]), LAMBDA compiled :
            IF ~compiled.ok
            THEN unmatched_from(columns, patterns, resolved, k + 1,
                                Append(unmatched, patterns[k]),
                                warnings \o compiled.warnings)
            ELSE IF ~\E c \in 1..Len(columns) : fullmatch(compiled, columns[c])
            THEN unmatched_from(columns, patterns, resolved, k + 1,
                                Append(unmatched, patterns[k]), warnings)
            ELSE unmatched_from(columns, patterns, resolved, k + 1, unmatched,
                                warnings))

\* the warnings of one step without the one that names the unmatched
step_warnings_quiet(columns, patterns, resolved, kind) == resolved.warnings

\* the warnings of one step of filter_features: those of the resolution,
\* those of the loop over the unmatched, and the one that names the unmatched
step_warnings(columns, patterns, resolved, kind) ==
    With(unmatched_from(columns, patterns, resolved.matched, 1, <<>>, <<>>),
         LAMBDA u :
            resolved.warnings \o u.warnings
            \o (IF u.unmatched # <<>>
                THEN <<Warning(kind, Range(u.unmatched))>> ELSE <<>>))

\* DataFrame.drop(columns=names, errors="ignore")
drop_ignore(df, names) ==
    With({i \in 1..Len(df.columns) : df.columns[i] \in Range(names)},
         LAMBDA gone :
            Frame(Without(df.columns, gone, 1),
                  [i \in 1..Len(df.rows) |-> Without(df.rows[i], gone, 1)]))

\* step 1 without the test for an empty use_features
select_requested_unguarded(data, use_features) ==
    With(resolve_feature_patterns(data.columns, use_features),
         LAMBDA selected :
            [df |-> select(data, selected.matched).df,
             warnings |-> step_warnings(data.columns, use_features,
                                        selected, "use_features")])

\* step 1 of filter_features: the requested features are selected
select_requested(data, use_features) ==
    IF use_features # <<>>
    THEN With(resolve_feature_patterns(data.columns, use_features),
              LAMBDA selected :
                 [df |-> select(data, selected.matched).df,
                  warnings |-> step_warnings(data.columns, use_features,
                                             selected, "use_features")])
    ELSE [df |-> data, warnings |-> <<>>]

\* step 2 dropping only the first of the resolved columns
drop_omitted_one(data, omit_features) ==
    IF omit_features # <<>>
    THEN With(resolve_feature_patterns(data.columns, omit_features),
              LAMBDA to_drop :
                 [df |-> IF to_drop.matched # <<>>
                         THEN drop_ignore(data, <<to_drop.matched[1]>>)
                         ELSE data,
                  warnings |-> step_warnings(data.columns, omit_features,
                                             to_drop, "omit_features")])
    ELSE [df |-> data, warnings |-> <<>>]

\* step 2 of filter_features: the omitted features are dropped
drop_omitted(data, omit_features) ==
    IF omit_features # <<>>
    THEN With(resolve_feature_patterns(data.columns, omit_features),
              LAMBDA to_drop :
                 [df |-> IF to_drop.matched # <<>>
                         THEN drop_ignore(data, to_drop.matched) ELSE data,
                  warnings |-> step_warnings(data.columns, omit_features,
                                             to_drop, "omit_features")])
    ELSE [df |-> data, warnings |-> <<>>]

\* filter_features(data, config)
filter_features(data, config) ==
    With(select_requested(data, config.feature_filtering.use_features),
         LAMBDA used :
            With(drop_omitted(used.df, config.feature_filtering.omit_features),
                 LAMBDA kept :
                    [ok |-> TRUE, err |-> NoErr, df |-> kept.df,
                     warnings |-> used.warnings \o kept.warnings]))

\* astype(str) of a cell: the text of a null is nan
astype_str(cell) == IF IsNull(cell) THEN <<"n", "a", "n">> ELSE cell

\* the loop over the patterns without the mask of the null values: a null
\* is matched by its text
RECURSIVE mask_patterns_with_nulls(_, _, _, _, _, _)
mask_patterns_with_nulls(data, column, patterns, p, mask, warnings) ==
    IF p > Len(patterns) THEN [mask |-> mask, warnings |-> warnings]
    ELSE With(compile_pattern(patterns[p]), LAMBDA compiled :
            IF ~compiled.ok
            THEN mask_patterns_with_nulls(data, column, patterns, p + 1, mask,
                                          warnings \o compiled.warnings)
            ELSE mask_patterns_with_nulls(data, column, patterns, p + 1,
                    mask \cup
                    {r \in 1..Len(data.rows) :
                        fullmatch(compiled,
                            astype_str(data.rows[r][ColIndex(data, column)]))},
                    warnings))

\* the loop over the patterns of one omit_rows entry, from the p-th on
RECURSIVE mask_patterns(_, _, _, _, _, _)
mask_patterns(data, column, patterns, p, mask, warnings) ==
    IF p > Len(patterns) THEN [mask |-> mask, warnings |-> warnings]
    ELSE With(compile_pattern(patterns[p]), LAMBDA compiled :
            IF ~compiled.ok
            THEN mask_patterns(data, column, patterns, p + 1, mask,
                               warnings \o compiled.warnings)
            ELSE mask_patterns(data, column, patterns, p + 1,
                    mask \cup
                    {r \in 1..Len(data.rows) :
                        /\ fullmatch(compiled,
                               astype_str(data.rows[r][ColIndex(data, column)]))
                        /\ ~IsNull(data.rows[r][ColIndex(data, column)])},
                    warnings))

\* the loop over the entries that ends after the e-th entry
mask_entries_first(data, omit_rows, e, mask, warnings) ==
    IF e > Len(omit_rows) \/ ~HasCol(data, omit_rows[e].column)
    THEN [mask |-> mask, warnings |-> warnings]
    ELSE mask_patterns(data, omit_rows[e].column, omit_rows[e].patterns, 1,
                       mask, warnings)

\* the loop over the entries of omit_rows, from the e-th on
RECURSIVE mask_entries(_, _, _, _, _)
mask_entries(data, omit_rows, e, mask, warnings) ==
    IF e > Len(omit_rows) THEN [mask |-> mask, warnings |-> warnings]
    ELSE IF ~HasCol(data, omit_rows[e].column)
    THEN mask_entries(data, omit_rows, e + 1, mask,
                      Append(warnings,
                             Warning("column", omit_rows[e].column)))
    ELSE With(mask_patterns(data, omit_rows[e].column, omit_rows[e].patterns,
                            1, mask, warnings),
              LAMBDA m :
                 mask_entries(data, omit_rows, e + 1, m.mask, m.warnings))

\* filter_rows(data, config): the row filter has no attribute omit_rows
\* unless it was given one
filter_rows(data, config) ==
    IF "omit_rows" \notin DOMAIN config.row_filtering
    THEN [ok |-> FALSE,
          err |-> Err("AttributeError", "omit_rows", "", ""),
          df |-> NoFrame, warnings |-> <<>>]
    ELSE IF config.row_filtering.omit_rows = <<>>
    THEN [ok |-> TRUE, err |-> NoErr, df |-> data, warnings |-> <<>>]
    ELSE With(mask_entries(data, config.row_filtering.omit_rows, 1, {}, <<>>),
              LAMBDA m :
                 [ok |-> TRUE, err |-> NoErr,
                  df |-> Frame(data.columns, Without(data.rows, m.mask, 1)),
                  warnings |-> m.warnings])

\* modelling/config.py
FeatureFilteringConfig(omit_features, use_features) ==
    [omit_features |-> omit_features, use_features |-> use_features]

RowFilteringConfig(omit_land) == [omit_land |-> omit_land]

TrainingConfig(feature_filtering, row_filtering) ==
    [feature_filtering |-> feature_filtering, row_filtering |-> row_filtering]

(***************************************************************************)
(* Homogeneity (feature_engineering/homogenity.py).  The numbers of a      *)
(* table are integers; a quotient is the fraction [num, den] in lowest     *)
(* terms with den > 0, and a coefficient of variation, the quotient of a   *)
(* square root by a mean, is kept exactly as [nan, sign, sq]: its sign     *)
(* and its square, or nan.                                                 *)
(***************************************************************************)
Abs(n) == IF n < 0 THEN -n ELSE n

Sign(n) == IF n < 0 THEN -1 ELSE IF n = 0 THEN 0 ELSE 1

RECURSIVE GCD(_, _)
GCD(a, b) == IF b = 0 THEN a ELSE GCD(b, a % b)

\* the fraction n/d in lowest terms (d # 0)
Rat(n, d) ==
    [num |-> Sign(d) * (n \div GCD(Abs(n), Abs(d))),
     den |-> Abs(d) \div GCD(Abs(n), Abs(d))]

RAdd(a, b) ==
    With((a.den \div GCD(a.den, b.den)) * b.den, LAMBDA lcm :
        Rat(a.num * (lcm \div a.den) + b.num * (lcm \div b.den), lcm))

RSub(a, b) == RAdd(a, Rat(-b.num, b.den))

RMul(a, b) ==
    Rat((a.num \div GCD(Abs(a.num), b.den))
            * (b.num \div GCD(Abs(b.num), a.den)),
        (a.den \div GCD(Abs(b.num), a.den))
            * (b.den \div GCD(Abs(a.num), b.den)))

\* a / b (b # 0)
RDiv(a, b) == RMul(a, Rat(b.den, b.num))

\* the sum of the fractions of a sequence
RECURSIVE RSum(_)
RSum(qs) == IF qs = <<>> THEN Rat(0, 1) ELSE RAdd(Head(qs), RSum(Tail(qs)))

\* a coefficient of variation: nan, or its sign and its square
NaN == [nan |-> TRUE, sign |-> 0, sq |-> Rat(0, 1)]

Real(sign, sq) == [nan |-> FALSE, sign |-> sign, sq |-> sq]

HasNull(cells) == \E i \in 1..Len(cells) : IsNull(cells[i])

\* np.average(values, weights=weights) over numbers, the weights not
\* summing to zero
average(values, weights) ==
    RDiv(RSum([i \in 1..Len(values) |-> RMul(values[i], weights[i])]),
         RSum(weights))

\* the variance taken as the plain mean of the squared deviations
weighted_var_plain(values, weights, weighted_mean) ==
    RDiv(RSum([i \in 1..Len(values) |->
                  RMul(RSub(values[i], weighted_mean),
                       RSub(values[i], weighted_mean))]),
         Rat(Len(values), 1))

\* weighted_var of _weighted_cv
weighted_var(values, weights, weighted_mean) ==
    average([i \in 1..Len(values) |->
                RMul(RSub(values[i], weighted_mean),
                     RSub(values[i], weighted_mean))],
            weights)

\* HomogeneityFeatureEngineering._weighted_cv on two arrays of cells: a nan
\* among them makes every step nan; np.average raises when the weights sum
\* to zero
weighted_cv(values, weights) ==
    IF HasNull(values) \/ HasNull(weights)
    THEN [ok |-> TRUE, err |-> NoErr, cv |-> NaN]
    ELSE With([i \in 1..Len(values) |-> Rat(values[i][1], 1)], LAMBDA v :
         With([i \in 1..Len(weights) |-> Rat(weights[i][1], 1)], LAMBDA w :
            IF RSum(w).num = 0
            THEN [ok |-> FALSE,
                  err |-> Err("ZeroDivisionError", "Weights sum to zero",
                              "", ""),
                  cv |-> NaN]
            ELSE With(average(v, w), LAMBDA weighted_mean :
                    IF weighted_mean.num = 0
                    THEN [ok |-> TRUE, err |-> NoErr, cv |-> NaN]
                    ELSE [ok |-> TRUE, err |-> NoErr,
                          cv |-> Real(Sign(weighted_mean.num),
                                      RDiv(weighted_var(v, w, weighted_mean),
                                           RMul(weighted_mean,
                                                weighted_mean)))])))

\* HomogeneityFeatureEngineering.__init__: the base class keeps its second
\* argument as output_column; no attribute output_columns is set.  hook is
\* the answer of the _validate of the base class
Homogeneity_init(input_columns, output_columns, weight_column) ==
    [cls |-> "HomogeneityFeatureEngineering",
     input_columns |-> input_columns, output_column |-> output_columns,
     weight_column |-> weight_column, hook |-> TRUE]

\* tuples of numbers in lexicographic order
RECURSIVE LexLess(_, _)
LexLess(a, b) ==
    IF b = <<>> THEN FALSE
    ELSE IF a = <<>> THEN TRUE
    ELSE IF Head(a) # Head(b) THEN Head(a) < Head(b)
    ELSE LexLess(Tail(a), Tail(b))

\* the keys of df.groupby("AGS"): the values of AGS that are not null, each
\* once, in increasing order
group_keys(df) ==
    With({df.rows[r][ColIndex(df, "AGS")] : r \in 1..Len(df.rows)} \ {Null},
         LAMBDA keys :
            CHOOSE q \in [1..Cardinality(keys) -> keys] :
                \A i, j \in 1..Cardinality(keys) : i < j => LexLess(q[i], q[j]))

\* the rows of the group of a key, in the order of the table
group_rows(df, ags) ==
    SelectSeq(df.rows, LAMBDA row : row[ColIndex(df, "AGS")] = ags)

\* the cells of a column over the rows of a group
column_values(df, group, col) ==
    [r \in 1..Len(group) |-> group[r][ColIndex(df, col)]]

\* np.sum(weights) > 0: false when a weight is nan
sum_positive(weights) ==
    /\ ~HasNull(weights)
    /\ RSum([i \in 1..Len(weights) |-> Rat(weights[i][1], 1)]).num > 0

\* np.all(values == 0)
all_zero(values) == \A i \in 1..Len(values) : values[i] = Num(0)

\* the loop over input_columns (lines 56-61), from the c-th column on
RECURSIVE group_cvs(_, _, _, _, _, _)
group_cvs(self, df, group, weights, c, cvs) ==
    IF c > Len(self.input_columns) THEN [ok |-> TRUE, err |-> NoErr, cvs |-> cvs]
    ELSE IF ~HasCol(df, self.input_columns[c])
    THEN [ok |-> FALSE,
          err |-> Err("KeyError", self.input_columns[c], "", ""),
          cvs |-> <<>>]
    ELSE With(column_values(df, group, self.input_columns[c]), LAMBDA values :
            IF sum_positive(weights) /\ ~all_zero(values)
            THEN With(weighted_cv(values, weights), LAMBDA r :
                    IF ~r.ok THEN [ok |-> FALSE, err |-> r.err, cvs |-> <<>>]
                    ELSE group_cvs(self, df, group, weights, c + 1,
                                   IF r.cv.nan THEN cvs
                                   ELSE Append(cvs, r.cv)))
            ELSE group_cvs(self, df, group, weights, c + 1, cvs))

\* np.mean(cvs), kept as the values it is the mean of, or nan
metric_value(cvs) ==
    IF cvs # <<>> THEN [nan |-> FALSE, mean_of |-> cvs]
    ELSE [nan |-> TRUE, mean_of |-> <<>>]

\* a group of fewer than 2 rows appended with its key alone
group_metrics_bare(self, df, ags) ==
    [skip |-> FALSE, ok |-> TRUE, err |-> NoErr, metrics |-> <<ags>>,
     labels |-> <<"AGS">>]

\* the body of the loop over the groups (lines 48-71): skip is true for a
\* group that is passed over; otherwise metrics is the row appended to
\* results, under the labels of its dict, unless the body raises
group_metrics(self, df, ags) ==
    IF Len(group_rows(df, ags)) < 2
    THEN [skip |-> TRUE, ok |-> TRUE, err |-> NoErr, metrics |-> <<>>,
          labels |-> <<>>]
    ELSE IF ~HasCol(df, self.weight_column)
    THEN [skip |-> FALSE, ok |-> FALSE,
          err |-> Err("KeyError", self.weight_column, "", ""),
          metrics |-> <<>>, labels |-> <<>>]
    ELSE With(group_cvs(self, df, group_rows(df, ags),
                        column_values(df, group_rows(df, ags),
                                      self.weight_column),
                        1, <<>>),
              LAMBDA r :
                 IF ~r.ok
                 THEN [skip |-> FALSE, ok |-> FALSE, err |-> r.err,
                       metrics |-> <<>>, labels |-> <<>>]
                 ELSE IF "output_columns" \notin DOMAIN self
                 THEN [skip |-> FALSE, ok |-> FALSE,
                       err |-> Err("AttributeError", "output_columns", "", ""),
                       metrics |-> <<>>, labels |-> <<>>]
                 ELSE [skip |-> FALSE, ok |-> TRUE, err |-> NoErr,
                       metrics |-> <<ags>> \o
                           [k \in 1..Len(self.output_columns) |->
                               metric_value(r.cvs)],
                       labels |-> <<"AGS">> \o self.output_columns])

\* the loop over the groups, from the g-th key on
RECURSIVE homogeneity_groups(_, _, _, _, _, _)
homogeneity_groups(self, df, keys, g, labels, results) ==
    IF g > Len(keys)
    THEN [ok |-> TRUE, err |-> NoErr, df |-> Frame(labels, results)]
    ELSE With(group_metrics(self, df, keys[g]), LAMBDA m :
            IF m.skip
            THEN homogeneity_groups(self, df, keys, g + 1, labels, results)
            ELSE IF ~m.ok THEN [ok |-> FALSE, err |-> m.err, df |-> NoFrame]
            ELSE homogeneity_groups(self, df, keys, g + 1, m.labels,
                                    Append(results, m.metrics)))

\* HomogeneityFeatureEngineering._apply(df): pd.DataFrame(results) has the
\* labels of the rows appended, and no column when there is none
homogeneity_apply(self, df) ==
    IF ~HasCol(df, "AGS")
    THEN [ok |-> FALSE, err |-> Err("KeyError", "AGS", "", ""), df |-> NoFrame]
    ELSE homogeneity_groups(self, df, group_keys(df), 1, <<>>, <<>>)

\* BaseFeatureEngineering.apply on an instance of the class completed with
\* the _validate of the base class
apply_homogeneity(self, df) ==
    IF ~validate(self, df)
    THEN [ok |-> FALSE,
          err |-> Err("ValueError",
                      "Input dataframe failed validation checks.", "", ""),
          df |-> NoFrame]
    ELSE homogeneity_apply(self, df)

\* the outcome of a load_transform call around a Homogeneity transform;
\* engineered is the table its apply returned, when it returned
lth_outcome(ok, err, df, applied, engineered) ==
    [ok |-> ok, err |-> err, df |-> df, applied |-> applied,
     engineered |-> engineered]

\* BaseFeature.load_transform on a MockFeature that holds df and whose
\* before_transforms is the one Homogeneity instance self: load, apply on
\* the loaded table, transform, then the left merge on AGS
load_transform_homogeneity(self, df) ==
    With(Feature("MockFeature", Source(TRUE, df), <<self>>), LAMBDA feature :
      With(load(feature), LAMBDA loaded :
        With(apply_homogeneity(self, loaded.df), LAMBDA result :
          IF ~result.ok
          THEN lth_outcome(FALSE, result.err, NoFrame, FALSE, NoFrame)
          ELSE
            With(transform(feature, loaded.df), LAMBDA transformed :
              With(merge_engineered(transformed.df, <<result.df>>, 1),
                   LAMBDA merged :
                      lth_outcome(merged.ok, merged.err, merged.df, TRUE,
                                  result.df))))))

(***************************************************************************)
(* Inputs: descriptors, sources and configurations, drawn from small sets. *)
(***************************************************************************)
\* a municipality identifier of 12 digits and the AGS code it stands for
MuId(k) == <<0, 1, 0, 5, 1, 5, 1, 6, 3, 0, 0, k>>

AGSCode(k) == <<0, 1, 0, 5, 1, 0, 0, k>>

KeyIds == 1..MaxKey

\* the parsed content of a municipalities file: one row per (k, persons)
MunicipalityFrame(rows) ==
    Frame(MunicipalityColumns,
          [i \in 1..Len(rows) |->
              <<MuId(rows[i][1]), Num(rows[i][1]), rows[i][2], Num(7), Num(3)>>])

\* a frame of two columns whose first column holds AGS codes
KeyedFrame(cols, rows) ==
    Frame(cols, [i \in 1..Len(rows) |-> <<AGSCode(rows[i][1]), rows[i][2]>>])

KeyedRows(values) == SeqsUpTo(KeyIds \X values, MaxRows)

\* the rows of a municipalities file: every municipality at most once, in
\* the order of the identifiers
FileRows(values) ==
    {q \in SeqsUpTo(KeyIds \X values, MaxKey) :
        \A i, j \in 1..Len(q) : i < j => q[i][1] < q[j][1]}

ComponentConfig(name, class_name, resolves, params, before_transforms) ==
    [name |-> name, class_name |-> class_name, resolves |-> resolves,
     params |-> params, before_transforms |-> before_transforms]

FeatureEngineeringConfig(name, resolves, input_columns, output_column) ==
    [name |-> name, class_name |-> "MockFeatureEngineering",
     resolves |-> resolves, input_columns |-> input_columns,
     output_column |-> output_column]

MatrixConfig(join_key, missing_values, fill_value, save_output) ==
    [join_key |-> join_key, missing_values |-> missing_values,
     fill_value |-> fill_value, save_output |-> save_output]

FeaturesYAMLConfig(municipalities, features, matrix) ==
    [municipalities |-> municipalities, features |-> features,
     matrix |-> matrix]

Resolutions == {"ok", "ImportError", "AttributeError", "TypeError"}

MissingValues == {"none", "drop", "fill"}

FillValue == Num(-999)

Named(names, parts) ==
    [i \in 1..Len(parts) |->
        ComponentConfig(names[i], parts[i][1], parts[i][2], parts[i][3],
                        parts[i][4])]

\* configurations that vary the rows: a municipalities file and one feature
\* f that holds a frame with the columns AGS and v
RowConfigs ==
    {FeaturesYAMLConfig(
        ComponentConfig("municipalities", "MunicipalityFeature", "ok",
                        Source(TRUE, MunicipalityFrame(base)), <<>>),
        Named(<<"f">>,
              <<<<"MockFeature", "ok",
                  Source(TRUE, KeyedFrame(<<"AGS", "v">>, rows)), <<>> >>>>),
        MatrixConfig("AGS", mv, FillValue, FALSE)) :
     base \in FileRows({Null, Num(9)}),
     rows \in KeyedRows({Null, Num(5)}),
     mv \in MissingValues}

\* configurations that vary the features: the municipalities file lists
\* every municipality, the features f, g, ... hold one row each
PairConfigs ==
    {FeaturesYAMLConfig(
        ComponentConfig("municipalities", "MunicipalityFeature", "ok",
                        Source(TRUE,
                               MunicipalityFrame([k \in KeyIds |->
                                                     <<k, Num(9)>>])),
                        <<>>),
        Named(<<"f", "g", "h">>,
              [i \in 1..Len(fs) |->
                  <<"MockFeature", "ok",
                    Source(TRUE, KeyedFrame(<<"AGS", "v">>, <<fs[i]>>)),
                    <<>> >>]),
        MatrixConfig("AGS", mv, FillValue, FALSE)) :
     fs \in SeqsUpTo(KeyIds \X {Null, Num(5)}, MaxFeatures),
     mv \in MissingValues}

\* the injective sequences over S of length at most n
InjectiveSeqs(S, n) == {q \in SeqsUpTo(S, n) : IsUnique(q)}

BaseLayouts ==
    {<<"AGS", "Persons">>, <<"AGS", "f_v">>, <<"AGS", "f_AGS">>,
     <<"id", "Persons">>}

FeatureLayouts ==
    {<<"AGS", "v">>, <<"id", "v">>, <<"AGS", "g_AGS">>, <<"AGS", "id">>}

FeatureNames == {"f", "g", "f_g"}

\* configurations that vary the names: mock frames of two columns, a base
\* of two rows and features of one row
ColumnConfigs ==
    UNION {
        {FeaturesYAMLConfig(
            ComponentConfig("municipalities", "MockFeature", "ok",
                            Source(TRUE, KeyedFrame(base, <<<<1, Num(9)>>,
                                                            <<2, Null>> >>)),
                            <<>>),
            Named(names,
                  [i \in 1..Len(names) |->
                      <<"MockFeature", "ok",
                        Source(TRUE,
                               KeyedFrame(layouts[i], <<<<1, Num(5)>> >>)),
                        <<>> >>]),
            MatrixConfig(join_key, mv, FillValue, TRUE)) :
         base \in BaseLayouts,
         layouts \in [1..Len(names) -> FeatureLayouts],
         join_key \in {"AGS", "id"},
         mv \in MissingValues} :
        names \in InjectiveSeqs(FeatureNames, MaxFeatures)}

\* what a listed feature reads: a keyed mock frame, a mock frame without
\* the join key, or a missing file
ListedSources ==
    {<<"MockFeature", Source(TRUE, KeyedFrame(<<"AGS", "v">>,
                                              <<<<1, Num(5)>> >>))>>,
     <<"MockFeature", Source(TRUE, KeyedFrame(<<"id", "v">>,
                                              <<<<1, Num(5)>> >>))>>,
     <<"MunicipalityFeature", Source(FALSE, NoFrame)>>}

ListedTransforms ==
    {<<>>,
     <<FeatureEngineeringConfig("t", "ok", <<"v">>, "h")>>}

\* the municipalities descriptors that resolve or not, on a file that
\* exists or not
BaseDescriptors ==
    {ComponentConfig("municipalities", "MunicipalityFeature", resolves,
                     source, <<>>) :
        resolves \in Resolutions,
        source \in {Source(TRUE, MunicipalityFrame(<<<<1, Num(9)>> >>)),
                    Source(FALSE, NoFrame)}}

\* configurations that vary the resolution of every descriptor and the
\* before_transforms of the listed ones
ResolutionConfigs ==
    {FeaturesYAMLConfig(
        base,
        Named(<<"f", "g", "h">>,
              [i \in 1..Len(fs) |->
                  <<"MockFeature", fs[i][1],
                    Source(TRUE, KeyedFrame(<<"AGS", "v">>,
                                            <<<<1, Num(5)>> >>)),
                    fs[i][2]>>]),
        MatrixConfig("AGS", "none", FillValue, TRUE)) :
     base \in BaseDescriptors,
     fs \in SeqsUpTo(Resolutions \X ListedTransforms, MaxFeatures)}

\* configurations that vary what the listed features read
LoadConfigs ==
    {FeaturesYAMLConfig(
        base,
        Named(<<"f", "g", "h">>,
              [i \in 1..Len(fs) |-> <<fs[i][1], "ok", fs[i][2], <<>> >>]),
        MatrixConfig("AGS", "none", FillValue, TRUE)) :
     base \in {b \in BaseDescriptors : b.resolves = "ok"},
     fs \in SeqsUpTo(ListedSources, MaxFeatures)}

Configs ==
    RowConfigs \cup PairConfigs \cup ColumnConfigs \cup ResolutionConfigs
    \cup LoadConfigs

\* the frame a MockFeature holds by default: a key, a value and a weight
ValueFrame(cols, rows) ==
    Frame(cols,
          [i \in 1..Len(rows) |->
              <<AGSCode(rows[i][1]), rows[i][2], Num(100 * rows[i][1])>>])

\* what a feature reads, the rows varied
FeatureSources ==
    {<<"MockFeature", Source(TRUE, ValueFrame(cols, rows))>> :
        cols \in {<<"AGS", "value", "weight">>, <<"id", "value", "weight">>},
        rows \in KeyedRows({Null, Num(10)})}
    \cup {<<"MunicipalityFeature", Source(TRUE, MunicipalityFrame(rows))>> :
            rows \in KeyedRows({Null, Num(9)})}
    \cup {<<"MunicipalityFeature", Source(FALSE, NoFrame)>>}

\* what a feature reads, two rows each
FixedSources ==
    {<<"MockFeature",
       Source(TRUE, ValueFrame(<<"AGS", "value", "weight">>,
                               <<<<1, Num(10)>>, <<2, Null>> >>))>>,
     <<"MockFeature",
       Source(TRUE, ValueFrame(<<"AGS", "value", "weight">>,
                               <<<<1, Num(10)>>, <<1, Null>> >>))>>,
     <<"MunicipalityFeature",
       Source(TRUE, MunicipalityFrame(<<<<1, Num(9)>>, <<2, Null>> >>))>>}

TransformConfigs ==
    {FeatureEngineeringConfig("t", resolves, input_columns, output_column) :
        resolves \in {"ok", "ImportError"},
        input_columns \in {<<"value", "weight">>, <<"Persons">>, <<"absent">>},
        output_column \in {"transformed_value", "value"}}

\* the before_transforms of the descriptors whose rows vary
SingleTransforms ==
    {<<>>,
     <<FeatureEngineeringConfig("t", "ok", <<"value", "weight">>,
                                "transformed_value")>>,
     <<FeatureEngineeringConfig("t", "ok", <<"Persons">>,
                                "transformed_value")>>}

\* the descriptors handed to instantiate_feature: the rows varied under at
\* most one before-transform, the before-transforms varied over fixed rows
FeatureConfigs ==
    {ComponentConfig("feature", src[1], resolves, src[2], before_transforms) :
        src \in FeatureSources,
        resolves \in {"ok", "AttributeError"},
        before_transforms \in SingleTransforms}
    \cup
    {ComponentConfig("feature", src[1], "ok", src[2], before_transforms) :
        src \in FixedSources,
        before_transforms \in SeqsUpTo(TransformConfigs, MaxTransforms)}

\* the transforms apply is called on: MockFeatureEngineering and subtypes
\* whose hook accepts or rejects, over present and absent input columns
Transforms ==
    {FETransform("MockFeatureEngineering", input_columns, output_column) :
        input_columns \in SeqsUpTo({"value", "weight", "absent"}, MaxTransforms),
        output_column \in {"transformed_value", "value"}}
    \cup
    {FESubtype(input_columns, output_column, hook) :
        input_columns \in SeqsUpTo({"value", "weight", "absent"}, MaxTransforms),
        output_column \in {"transformed_value", "value"},
        hook \in BOOLEAN}

\* the frames handed to apply
AppliedFrames ==
    {ValueFrame(cols, rows) :
        cols \in {<<"AGS", "value", "weight">>, <<"AGS", "value", "load">>},
        rows \in KeyedRows({Null, Num(10)})}

\* the column names of the tables that are filtered
FilterNames ==
    {<<"a">>, <<"a", "b">>, <<"b">>, <<"a", "*">>, <<"a", "\n", "b">>}

\* the table of the given columns: two rows, the cell of a column in a row
\* is the column's name followed by the row's digit
FeatureTable(columns) ==
    Frame(columns,
          [r \in 1..2 |->
              [c \in 1..Len(columns) |->
                  Append(columns[c], IF r = 1 THEN "1" ELSE "2")]])

\* the patterns of use_features and omit_features: names, globs,
\* expressions, a pattern that matches no column, one that does not compile
FeaturePatterns ==
    {<<"a">>, <<"a", "*">>, <<"*">>, <<"b", "*">>, <<"c">>, <<".", "*">>,
     <<"*", ".">>, <<"a", ".">>}

\* the patterns of the filters whose two lists vary
ListedPatterns ==
    {<<"a">>, <<"a", "*">>, <<"*">>, <<"c">>, <<"*", ".">>}

\* a table and a feature filter: the tables varied under one use_features
\* pattern, the two lists varied over one table
FeatureFilterInputs ==
    {[data |-> FeatureTable(columns),
      config |-> TrainingConfig(FeatureFilteringConfig(<<>>, use_features),
                                RowFilteringConfig(<<>>))] :
        columns \in InjectiveSeqs(FilterNames, MaxColumns),
        use_features \in SeqsUpTo(FeaturePatterns, 1)}
    \cup
    {[data |-> FeatureTable(<<<<"a">>, <<"a", "b">>, <<"b">>, <<"a", "*">> >>),
      config |-> TrainingConfig(
                     FeatureFilteringConfig(omit_features, use_features),
                     RowFilteringConfig(<<>>))] :
        use_features \in SeqsUpTo(ListedPatterns, MaxPatterns),
        omit_features \in SeqsUpTo(ListedPatterns, MaxPatterns)}

\* a row filter that was given the omit_rows mapping filter_rows reads; the
\* mapping is the sequence of its entries in insertion order
RowFilteringWith(omit_rows) == [omit_land |-> <<>>, omit_rows |-> omit_rows]

OmitEntry(column, patterns) == [column |-> column, patterns |-> patterns]

\* the cells of the tables whose rows are filtered
RowCells == {Null, <<"0", "2">>, <<"0", "3">>, <<"n", "a", "n">>}

RowTables ==
    {Frame(<<<<"k">>, <<"l">> >>, rows) :
        rows \in SeqsUpTo(RowCells \X RowCells, MaxRows)}

OmitRowsMappings ==
    {<<>>,
     <<OmitEntry(<<"k">>, << <<"0", "2">> >>)>>,
     <<OmitEntry(<<"k">>, << <<"0", "*">> >>)>>,
     <<OmitEntry(<<"k">>, << <<".", "*">> >>)>>,
     <<OmitEntry(<<"k">>, << <<"n", "a", "n">> >>)>>,
     <<OmitEntry(<<"k">>, << <<"*", ".">>, <<"0", "3">> >>)>>,
     <<OmitEntry(<<"x">>, << <<"0", "*">> >>)>>,
     <<OmitEntry(<<"k">>, << <<"0", "2">>, <<"0", "3">> >>)>>,
     <<OmitEntry(<<"k">>, << <<"0", "3">>, <<"0", "2">> >>)>>,
     <<OmitEntry(<<"k">>, << <<"0", "2">> >>),
       OmitEntry(<<"l">>, << <<"0", "3">> >>)>>,
     <<OmitEntry(<<"l">>, << <<"0", "3">> >>),
       OmitEntry(<<"k">>, << <<"0", "2">> >>)>>}

\* a table and a row filter: the RowFilteringConfig of config.py, and row
\* filters with an omit_rows mapping
RowFilterInputs ==
    {[data |-> data,
      config |-> TrainingConfig(FeatureFilteringConfig(<<>>, <<>>),
                                row_filtering)] :
        data \in RowTables,
        row_filtering \in {RowFilteringConfig(<<>>)}
                          \cup {RowFilteringWith(m) : m \in OmitRowsMappings}}

FilterInputs == FeatureFilterInputs \cup RowFilterInputs

\* a table of districts: AGS, the value x and the weight population
DistrictRows ==
    SeqsUpTo(KeyIds \X {0, 100} \X {0, 1}, MaxGroup)

DistrictTable(rows) ==
    Frame(<<"AGS", "x", "population">>,
          [i \in 1..Len(rows) |->
              <<AGSCode(rows[i][1]), Num(rows[i][2]), Num(rows[i][3])>>])

\* instances as __init__ leaves them: one input column, two, a weight
\* column the table lacks, an input column the table lacks
HomogeneityInstances ==
    {Homogeneity_init(<<"x">>, <<"h">>, "population"),
     Homogeneity_init(<<"x", "population">>, <<"h">>, "population"),
     Homogeneity_init(<<"x">>, <<"h">>, "w"),
     Homogeneity_init(<<"y">>, <<"h">>, "population")}

\* the arrays handed to _weighted_cv: values and weights of one length
CVValues == {-100, 0, 90, 100, 110}

CVWeights == {0, 1, 2}

CVInputs ==
    {[values |-> [i \in 1..Len(q) |-> Num(q[i][1])],
      weights |-> [i \in 1..Len(q) |-> Num(q[i][2])]] :
        q \in SeqsUpTo(CVValues \X CVWeights, MaxGroup) \ {<<>>}}

(***************************************************************************)
(* State of a FeatureMatrixBuilder and of its environment.                 *)
(***************************************************************************)
VARIABLES
    pc,              \* "new", "constructed", or "failed" when __init__ raised
    config,          \* the validated configuration
    municipalities,  \* the base feature
    features,        \* the loaded features, in insertion order
    init_err,        \* the error __init__ raised
    out,             \* the outcome of the last build_matrix call
    file,            \* the content at output_path
    names,           \* what the last get_feature_names call returned
    feat_pc,         \* of a feature built by instantiate_feature: "new",
                     \* "ready", or "failed" when instantiate_feature raised
    feat_config,     \* the descriptor it was built from
    feat,            \* the feature instance
    feat_err,        \* the error instantiate_feature raised
    lt,              \* the outcome of its last load_transform call
    calls,           \* the number of load_transform calls made on it
    fe_transform,    \* a feature-engineering transform,
    fe_df,           \* the frame handed to its apply,
    fe_applied,      \* and the outcome of that call
    data,            \* a table handed to the filters,
    training_config, \* the training configuration,
    features_filtered, \* the outcome of filter_features on them
    rows_filtered,   \* and the outcome of filter_rows
    hom_self,        \* a Homogeneity instance,
    hom_df,          \* the table handed to its apply,
    hom_out,         \* and the outcome of that call
    cv_values,       \* the values handed to _weighted_cv,
    cv_weights,      \* the weights,
    cv_out,          \* and the outcome of that call
    hom_lt           \* the outcome of load_transform around the instance

builder_vars ==
    <<pc, config, municipalities, features, init_err, out, file, names>>

feature_vars == <<feat_pc, feat_config, feat, feat_err, lt, calls>>

apply_vars == <<fe_transform, fe_df, fe_applied>>

filter_vars == <<data, training_config, features_filtered, rows_filtered>>

hom_vars ==
    <<hom_self, hom_df, hom_out, cv_values, cv_weights, cv_out, hom_lt>>

call_vars == <<apply_vars, filter_vars, hom_vars>>

vars == <<builder_vars, feature_vars, call_vars>>

NoConfig ==
    FeaturesYAMLConfig(ComponentConfig("", "", "", Source(FALSE, NoFrame), <<>>),
                       <<>>, MatrixConfig("", "", Null, FALSE))

NoOutcome ==
    [called |-> FALSE, ok |-> FALSE, err |-> NoErr, df |-> NoFrame,
     feature_dfs |-> <<>>, merged |-> NoFrame, trace |-> <<>>]

NoFile == [written |-> FALSE, df |-> NoFrame, content |-> to_csv(NoFrame)]

NoNames == [called |-> FALSE, value |-> <<>>]

NoCall ==
    [called |-> FALSE, ok |-> FALSE, err |-> NoErr, df |-> NoFrame,
     trace |-> <<>>]

\* the state without a builder and without a feature
Idle ==
    /\ pc = "new"
    /\ municipalities = NoFeature
    /\ features = <<>>
    /\ init_err = NoErr
    /\ out = NoOutcome
    /\ file = NoFile
    /\ names = NoNames
    /\ feat_pc = "new"
    /\ feat = NoFeature
    /\ feat_err = NoErr
    /\ lt = NoCall
    /\ calls = 0

NoApplied ==
    [called |-> FALSE, ok |-> FALSE, err |-> NoErr, df |-> NoFrame,
     arg |-> NoFrame, ran |-> FALSE]

\* no transform is applied on its own
IdleApply ==
    /\ fe_transform = FETransform("", <<>>, "")
    /\ fe_df = NoFrame
    /\ fe_applied = NoApplied

NoFiltered ==
    [called |-> FALSE, ok |-> FALSE, err |-> NoErr, df |-> NoFrame,
     warnings |-> <<>>]

\* no table is filtered
IdleFilter ==
    /\ data = NoFrame
    /\ training_config = TrainingConfig(FeatureFilteringConfig(<<>>, <<>>),
                                        RowFilteringConfig(<<>>))
    /\ features_filtered = NoFiltered
    /\ rows_filtered = NoFiltered

NoHomogeneity == [called |-> FALSE, ok |-> FALSE, err |-> NoErr, df |-> NoFrame]

NoCV == [called |-> FALSE, ok |-> FALSE, err |-> NoErr, cv |-> NaN]

NoJoined ==
    [called |-> FALSE, ok |-> FALSE, err |-> NoErr, df |-> NoFrame,
     applied |-> FALSE, engineered |-> NoFrame]

\* no Homogeneity is applied
IdleHomogeneity ==
    /\ hom_self = Homogeneity_init(<<>>, <<>>, "")
    /\ hom_df = NoFrame
    /\ hom_out = NoHomogeneity
    /\ cv_values = <<>>
    /\ cv_weights = <<>>
    /\ cv_out = NoCV
    /\ hom_lt = NoJoined

\* a configuration file is in place, no builder is constructed yet
Init ==
    /\ Idle
    /\ IdleApply
    /\ IdleFilter
    /\ IdleHomogeneity
    /\ config \in Configs
    /\ feat_config = NoConfig.municipalities

\* FeatureMatrixBuilder.__init__ on the configuration file
Construct ==
    /\ pc = "new"
    /\ With(load_features(config), LAMBDA loaded :
            /\ pc' = IF loaded.ok THEN "constructed" ELSE "failed"
            /\ municipalities' = loaded.municipalities
            /\ features' = loaded.features
            /\ init_err' = loaded.err)
    /\ UNCHANGED <<config, out, file, names, feature_vars, call_vars>>

\* a call of build_matrix on the constructed builder
BuildMatrix ==
    /\ pc = "constructed"
    /\ With(build_matrix(features, municipalities, config.matrix), LAMBDA r :
            /\ out' = [called |-> TRUE, ok |-> r.ok, err |-> r.err,
                       df |-> r.df, feature_dfs |-> r.feature_dfs,
                       merged |-> r.merged, trace |-> r.trace]
            /\ features' = r.features
            /\ municipalities' = r.municipalities
            /\ file' = IF r.ok
                       THEN written_file(config.matrix, r.df, r.merged, file)
                       ELSE file)
    /\ UNCHANGED <<pc, config, init_err, names, feature_vars, call_vars>>

\* a call of get_feature_names on the constructed builder
GetFeatureNames ==
    /\ pc = "constructed"
    /\ names' = [called |-> TRUE, value |-> get_feature_names(features)]
    /\ UNCHANGED <<pc, config, municipalities, features, init_err, out, file,
                   feature_vars, call_vars>>

Next ==
    \/ Construct
    \/ BuildMatrix
    \/ GetFeatureNames

Spec == Init /\ [][Next]_vars

\* a feature descriptor is in place, no feature is instantiated yet
InitFeature ==
    /\ Idle
    /\ IdleApply
    /\ IdleFilter
    /\ IdleHomogeneity
    /\ config = NoConfig
    /\ feat_config \in FeatureConfigs

\* instantiate_feature(feat_config) of features/base.py
InstantiateFeature ==
    /\ feat_pc = "new"
    /\ With(instantiate_feature(feat_config), LAMBDA r :
            /\ feat_pc' = IF r.ok THEN "ready" ELSE "failed"
            /\ feat' = r.feature
            /\ feat_err' = r.err)
    /\ UNCHANGED <<feat_config, lt, calls, builder_vars, call_vars>>

\* a call of load_transform on the instantiated feature
LoadTransform ==
    /\ feat_pc = "ready"
    /\ calls < MaxCalls
    /\ With(load_transform(feat), LAMBDA r :
            /\ lt' = [called |-> TRUE, ok |-> r.ok, err |-> r.err,
                      df |-> r.df, trace |-> r.trace]
            /\ feat' = r.feature)
    /\ calls' = calls + 1
    /\ UNCHANGED <<feat_pc, feat_config, feat_err, builder_vars, call_vars>>

NextFeature ==
    \/ InstantiateFeature
    \/ LoadTransform

SpecFeature == InitFeature /\ [][NextFeature]_vars

\* a transform and a frame are in place, apply is not called yet
InitApply ==
    /\ Idle
    /\ config = NoConfig
    /\ feat_config = NoConfig.municipalities
    /\ fe_transform \in Transforms
    /\ fe_df \in AppliedFrames
    /\ fe_applied = NoApplied
    /\ IdleFilter
    /\ IdleHomogeneity

\* BaseFeatureEngineering.apply(fe_df) on the transform
Apply ==
    /\ ~fe_applied.called
    /\ With(apply(fe_transform, fe_df), LAMBDA r :
            fe_applied' = [called |-> TRUE, ok |-> r.ok, err |-> r.err,
                           df |-> r.df, arg |-> r.arg, ran |-> r.ran])
    /\ UNCHANGED <<fe_transform, fe_df, builder_vars, feature_vars,
                   filter_vars, hom_vars>>

NextApply == Apply

SpecApply == InitApply /\ [][NextApply]_vars

\* a table and a training configuration are in place, no filter is called
InitFilter ==
    /\ Idle
    /\ config = NoConfig
    /\ feat_config = NoConfig.municipalities
    /\ IdleApply
    /\ \E input \in FilterInputs :
          /\ data = input.data
          /\ training_config = input.config
    /\ features_filtered = NoFiltered
    /\ rows_filtered = NoFiltered
    /\ IdleHomogeneity

\* a call of filter_features(data, training_config)
FilterFeatures ==
    /\ ~features_filtered.called
    /\ ~rows_filtered.called
    /\ With(filter_features(data, training_config), LAMBDA r :
            features_filtered' = [called |-> TRUE, ok |-> r.ok, err |-> r.err,
                                  df |-> r.df, warnings |-> r.warnings])
    /\ UNCHANGED <<data, training_config, rows_filtered, builder_vars,
                   feature_vars, apply_vars, hom_vars>>

\* a call of filter_rows(data, training_config)
FilterRows ==
    /\ ~features_filtered.called
    /\ ~rows_filtered.called
    /\ With(filter_rows(data, training_config), LAMBDA r :
            rows_filtered' = [called |-> TRUE, ok |-> r.ok, err |-> r.err,
                              df |-> r.df, warnings |-> r.warnings])
    /\ UNCHANGED <<data, training_config, features_filtered, builder_vars,
                   feature_vars, apply_vars, hom_vars>>

NextFilter ==
    \/ FilterFeatures
    \/ FilterRows

SpecFilter == InitFilter /\ [][NextFilter]_vars

\* a Homogeneity instance and a table are in place, or the arrays of a call
\* of _weighted_cv; nothing is called yet
InitHomogeneity ==
    /\ Idle
    /\ config = NoConfig
    /\ feat_config = NoConfig.municipalities
    /\ IdleApply
    /\ IdleFilter
    /\ \/ /\ hom_self \in HomogeneityInstances
          /\ \E rows \in DistrictRows : hom_df = DistrictTable(rows)
          /\ cv_values = <<>>
          /\ cv_weights = <<>>
       \/ /\ hom_self = Homogeneity_init(<<>>, <<>>, "")
          /\ hom_df = NoFrame
          /\ \E input \in CVInputs :
                /\ cv_values = input.values
                /\ cv_weights = input.weights
    /\ hom_out = NoHomogeneity
    /\ cv_out = NoCV
    /\ hom_lt = NoJoined

\* nothing is called yet on the instance and the arrays
Uncalled == ~hom_out.called /\ ~cv_out.called /\ ~hom_lt.called

\* apply(hom_df) on the Homogeneity instance
ApplyHomogeneity ==
    /\ Uncalled
    /\ With(apply_homogeneity(hom_self, hom_df), LAMBDA r :
            hom_out' = [called |-> TRUE, ok |-> r.ok, err |-> r.err,
                        df |-> r.df])
    /\ UNCHANGED <<hom_self, hom_df, cv_values, cv_weights, cv_out, hom_lt,
                   builder_vars, feature_vars, apply_vars, filter_vars>>

\* HomogeneityFeatureEngineering._weighted_cv(cv_values, cv_weights)
WeightedCV ==
    /\ Uncalled
    /\ With(weighted_cv(cv_values, cv_weights), LAMBDA r :
            cv_out' = [called |-> TRUE, ok |-> r.ok, err |-> r.err,
                       cv |-> r.cv])
    /\ UNCHANGED <<hom_self, hom_df, hom_out, cv_values, cv_weights, hom_lt,
                   builder_vars, feature_vars, apply_vars, filter_vars>>

\* load_transform on a MockFeature that holds hom_df, its before_transforms
\* the Homogeneity instance
LoadTransformHomogeneity ==
    /\ Uncalled
    /\ With(load_transform_homogeneity(hom_self, hom_df), LAMBDA r :
            hom_lt' = [called |-> TRUE, ok |-> r.ok, err |-> r.err,
                       df |-> r.df, applied |-> r.applied,
                       engineered |-> r.engineered])
    /\ UNCHANGED <<hom_self, hom_df, hom_out, cv_values, cv_weights, cv_out,
                   builder_vars, feature_vars, apply_vars, filter_vars>>

NextHomogeneity ==
    \/ ApplyHomogeneity
    \/ WeightedCV
    \/ LoadTransformHomogeneity

SpecHomogeneity == InitHomogeneity /\ [][NextHomogeneity]_vars

(***************************************************************************)
(* Properties of the builder (Spec).                                       *)
(***************************************************************************)
JoinKey == config.matrix.join_key

\* the cells of column c of df, in row order
Column(df, c) == [i \in 1..Len(df.rows) |-> df.rows[i][ColIndex(df, c)]]

\* the columns of df other than c, in order
OtherColumns(df, c) == SelectSeq(df.columns, LAMBDA col : col # c)

\* build_matrix was called and returned a matrix
Built == out.called /\ out.ok

\* the table of the base municipalities feature
BaseTable == load_transform(municipalities).df

\* what load_transform gives for the loaded feature at place i
FeatureOutput(i) == load_transform(features[i].instance)

\* the name of the loaded feature at place i, put before the column col
Namespaced(i, col) == features[i].name \o "_" \o col

\* the listed descriptors that resolve, in configuration order
Resolved == SelectSeq(config.features, LAMBDA d : d.resolves = "ok")

\* C1: under the missing-value policy fill or none, build_matrix returns
\* exactly one row per row of the base municipalities table, in its order
\* and with its join-key value, whatever the feature tables hold: no base
\* row is dropped and none is duplicated.
C1_OneRowPerBaseRow ==
    (Built /\ config.matrix.missing_values \in {"fill", "none"}) =>
        Column(out.df, JoinKey) = Column(BaseTable, JoinKey)

\* C2 as stated: every non-join-key column c of the table of feature f is
\* renamed to f_c, the join key keeps its name, and the matrix has no column
\* f_<join_key> for any loaded feature f.
C2_NoPrefixedJoinKeyInMatrix ==
    Built =>
        \A i \in 1..Len(features) :
            /\ out.feature_dfs[i].columns =
                   [j \in 1..Len(FeatureOutput(i).df.columns) |->
                       IF FeatureOutput(i).df.columns[j] = JoinKey
                       THEN JoinKey
                       ELSE Namespaced(i, FeatureOutput(i).df.columns[j])]
            /\ ~HasCol(out.df, Namespaced(i, JoinKey))

\* C2, amended: in the table build_matrix merges for feature f, every
\* non-join-key column c of f's load_transform output is named f_c, the
\* join key keeps its name and place, the rows are those of the output, and
\* that table has no column f_<join_key>.
C2_RenamedFeatureColumns ==
    (out.called /\ out.feature_dfs # <<>>) =>
        /\ Len(out.feature_dfs) = Len(features)
        /\ \A i \in 1..Len(features) :
              /\ Len(out.feature_dfs[i].columns)
                     = Len(FeatureOutput(i).df.columns)
              /\ \A j \in 1..Len(FeatureOutput(i).df.columns) :
                    out.feature_dfs[i].columns[j] =
                        IF FeatureOutput(i).df.columns[j] = JoinKey
                        THEN JoinKey
                        ELSE Namespaced(i, FeatureOutput(i).df.columns[j])
              /\ out.feature_dfs[i].rows = FeatureOutput(i).df.rows
              /\ HasCol(out.feature_dfs[i], JoinKey)
              /\ ~HasCol(out.feature_dfs[i], Namespaced(i, JoinKey))

\* C2, the case: a matrix is built from a feature f with a renamed column,
\* and the matrix has a column f_<join_key>
C2_Witness ==
    /\ Built
    /\ \E i \in 1..Len(features) :
          /\ HasCol(out.df, Namespaced(i, JoinKey))
          /\ HasCol(out.feature_dfs[i], Namespaced(i, "v"))
          /\ HasCol(out.df, Namespaced(i, "v"))

\* the names build_matrix merges: the columns of the base table, then the
\* non-join-key columns of every renamed feature table in load order
MergedNames ==
    BaseTable.columns
    \o Flatten([i \in 1..Len(out.feature_dfs) |->
                   OtherColumns(out.feature_dfs[i], JoinKey)])

\* C3 as stated: the columns of the matrix returned and persisted are
\* exactly the join key and the namespaced columns of every loaded feature.
C3_OnlyNamespacedColumns ==
    Built =>
        /\ Range(out.df.columns) =
               {JoinKey}
               \cup UNION {Range(out.feature_dfs[i].columns) :
                               i \in 1..Len(out.feature_dfs)}
        /\ config.matrix.save_output => (file.written /\ file.df = out.df)

\* C3, amended: the matrix returned and persisted holds one column per
\* column of the base table (the join key among them) and per namespaced
\* non-join-key column of every loaded feature; when these names are
\* pairwise distinct its columns are exactly these names, base table first
\* and features in load order; a name that occurs twice is told apart by
\* the suffixes _x and _y.
C3_BaseAndNamespacedColumns ==
    Built =>
        /\ Len(out.df.columns) = Len(MergedNames)
        /\ IsUnique(MergedNames) => out.df.columns = MergedNames
        /\ HasCol(out.df, JoinKey)
        /\ \A p \in 1..Len(MergedNames) :
              out.df.columns[p] \in {MergedNames[p], MergedNames[p] \o "_x",
                                     MergedNames[p] \o "_y"}
        /\ config.matrix.save_output => (file.written /\ file.df = out.df)

\* C3, the case: a matrix of two features on a base table with columns of
\* its own is returned and persisted
C3_Witness ==
    /\ Built
    /\ file.written
    /\ Len(out.feature_dfs) = 2
    /\ HasCol(out.df, "Persons")
    /\ HasCol(BaseTable, "Persons")
    /\ IsUnique(MergedNames)

\* the places in the merged frame of the columns that feature i brought
FeaturePlaces(i) ==
    LET before == Len(BaseTable.columns)
                  + Len(Flatten([k \in 1..(i - 1) |->
                            OtherColumns(out.feature_dfs[k], JoinKey)]))
    IN  (before + 1)..(before + Len(out.feature_dfs[i].columns) - 1)

\* the base rows of the merged frame whose join-key value is in no row of
\* the table of feature i
Unmatched(i) ==
    {r \in 1..Len(out.merged.rows) :
        out.merged.rows[r][ColIndex(out.merged, JoinKey)]
            \notin Range(Column(out.feature_dfs[i], JoinKey))}

\* C4: with missing_values=fill the matrix has the rows and columns of the
\* merged frame and no null: a cell that is null after merging holds
\* fill_value, the feature cells of a base row unmatched in a feature table
\* among them, and every other cell is the merged one.
C4_FillReplacesNulls ==
    (Built /\ config.matrix.missing_values = "fill") =>
        /\ out.df.columns = out.merged.columns
        /\ Len(out.df.rows) = Len(out.merged.rows)
        /\ \A r \in 1..Len(out.merged.rows) :
              /\ Len(out.df.rows[r]) = Len(out.merged.rows[r])
              /\ \A c \in 1..Len(out.merged.rows[r]) :
                    /\ ~IsNull(out.df.rows[r][c])
                    /\ out.df.rows[r][c] =
                           IF IsNull(out.merged.rows[r][c])
                           THEN config.matrix.fill_value
                           ELSE out.merged.rows[r][c]
        /\ \A i \in 1..Len(out.feature_dfs) :
              \A r \in Unmatched(i) :
                 \A c \in FeaturePlaces(i) :
                    out.df.rows[r][c] = config.matrix.fill_value

\* C4, the case: a filled matrix with a base row unmatched in a feature
\* table, a null that a table brought and a cell that is not null
C4_Witness ==
    /\ Built
    /\ config.matrix.missing_values = "fill"
    /\ \E i \in 1..Len(out.feature_dfs) :
          /\ Unmatched(i) # {}
          /\ Unmatched(i) # 1..Len(out.merged.rows)
    /\ HasCol(out.merged, "Persons")
    /\ \E r \in 1..Len(out.merged.rows) :
          /\ IsNull(out.merged.rows[r][ColIndex(out.merged, "Persons")])
          /\ out.df.rows[r][ColIndex(out.df, "Persons")] = FillValue

\* the places of the rows of df without any null, in order
FullRows(df) ==
    {r \in 1..Len(df.rows) :
        \A c \in 1..Len(df.rows[r]) : ~IsNull(df.rows[r][c])}

\* the k-th smallest element of the set S of numbers
Nth(S, k) == CHOOSE r \in S : Cardinality({q \in S : q <= r}) = k

\* C5: with missing_values=drop the matrix consists of exactly the merged
\* rows without a null in any column, in their order: a row with a null is
\* never returned and a row without one is never removed.
C5_DropKeepsFullRows ==
    (Built /\ config.matrix.missing_values = "drop") =>
        /\ out.df.columns = out.merged.columns
        /\ Len(out.df.rows) = Cardinality(FullRows(out.merged))
        /\ \A k \in 1..Len(out.df.rows) :
              out.df.rows[k] = out.merged.rows[Nth(FullRows(out.merged), k)]
        /\ FullRows(out.df) = 1..Len(out.df.rows)

\* C5, the case: of the merged rows one has a null in a base column only,
\* one has no null, and the matrix is the latter
C5_Witness ==
    /\ Built
    /\ config.matrix.missing_values = "drop"
    /\ Len(out.merged.rows) = 2
    /\ Len(out.df.rows) = 1
    /\ HasCol(out.merged, "Persons")
    /\ HasCol(out.merged, "f_v")
    /\ \E r \in 1..2 :
          /\ IsNull(out.merged.rows[r][ColIndex(out.merged, "Persons")])
          /\ ~IsNull(out.merged.rows[r][ColIndex(out.merged, "f_v")])

\* the load_transform output of the loaded feature at place i lacks the
\* join key
Lacks(i) == FeatureOutput(i).ok /\ ~HasCol(FeatureOutput(i).df, JoinKey)

\* the loaded features that build_matrix cannot take: load_transform raises
\* or its output lacks the join key
Failing ==
    {i \in 1..Len(features) : ~FeatureOutput(i).ok \/ Lacks(i)}

\* build_matrix raised the join-key error for the loaded feature at place i
NamesFeature(i) ==
    /\ out.err.type = "KeyError"
    /\ out.err.feature = features[i].name
    /\ out.err.key = JoinKey

\* C6 as stated: whenever the load_transform output of a loaded feature
\* lacks the join key, build_matrix returns no matrix and raises an error
\* that names that feature and the join key.
C6_ErrorNamesEveryFeatureWithoutKey ==
    out.called =>
        \A i \in 1..Len(features) :
            Lacks(i) => (~out.ok /\ out.df = NoFrame /\ NamesFeature(i))

\* C6, amended: when the load_transform output of some loaded feature lacks
\* the join key, build_matrix returns and persists no matrix and raises the
\* error of the first feature, in load order, that it cannot take: the
\* join-key error naming that feature and the join key when its output
\* lacks the join key, the error of its load_transform otherwise.
C6_FirstFailingFeatureRaises ==
    (out.called /\ \E i \in 1..Len(features) : Lacks(i)) =>
        /\ ~out.ok
        /\ out.df = NoFrame
        /\ ~file.written
        /\ IF Lacks(Nth(Failing, 1))
           THEN NamesFeature(Nth(Failing, 1))
           ELSE out.err = FeatureOutput(Nth(Failing, 1)).err

\* C6, the case: the first feature is taken, the second has no join key and
\* build_matrix raised the error that names the second
C6_Witness ==
    /\ out.called
    /\ ~out.ok
    /\ Len(features) = 2
    /\ Failing = {2}
    /\ Lacks(2)
    /\ NamesFeature(2)
    /\ config.matrix.save_output

\* C7: a listed feature that fails to resolve is dropped alone: the loaded
\* features, and what get_feature_names returns, are the listed features
\* that resolve, in configuration order, and build_matrix takes one table
\* from each; construction fails exactly when the municipalities feature
\* fails to resolve, with its error.
C7_FailedFeatureDropped ==
    /\ (pc = "failed") <=>
           (pc # "new" /\ config.municipalities.resolves # "ok")
    /\ pc = "failed" =>
           /\ init_err.type = config.municipalities.resolves
           /\ features = <<>>
           /\ ~out.called
    /\ pc = "constructed" =>
           /\ municipalities.cls = config.municipalities.class_name
           /\ Len(features) = Len(Resolved)
           /\ \A i \in 1..Len(Resolved) :
                 /\ features[i].name = Resolved[i].name
                 /\ features[i].instance.cls = Resolved[i].class_name
                 /\ features[i].instance.data = Resolved[i].params
    /\ names.called =>
           names.value = [i \in 1..Len(Resolved) |-> Resolved[i].name]
    /\ Built =>
           /\ Len(out.feature_dfs) = Len(Resolved)
           /\ \A i \in 1..Len(Resolved) :
                 out.feature_dfs[i].rows = Resolved[i].params.df.rows

\* C7, the case: of two listed features the first fails to resolve, the
\* second is the one loaded, named and built from
C7_Witness ==
    /\ pc = "constructed"
    /\ Len(config.features) = 2
    /\ config.features[1].resolves # "ok"
    /\ config.features[2].resolves = "ok"
    /\ names.called
    /\ names.value = <<config.features[2].name>>
    /\ Built
    /\ Len(out.feature_dfs) = 1

\* C8: a feature that the builder resolves from a descriptor owns the
\* transforms of the descriptor's before_transforms, one instance per
\* descriptor and in its order.
C8_BuilderFeatureOwnsTransforms ==
    pc = "constructed" =>
        \A i \in 1..Len(features) :
            /\ Len(features[i].instance.before_transforms)
                   = Len(Resolved[i].before_transforms)
            /\ \A j \in 1..Len(Resolved[i].before_transforms) :
                  features[i].instance.before_transforms[j] =
                      FETransform(
                          Resolved[i].before_transforms[j].class_name,
                          Resolved[i].before_transforms[j].input_columns,
                          Resolved[i].before_transforms[j].output_column)

(***************************************************************************)
(* Properties of a feature (SpecFeature).                                  *)
(***************************************************************************)
\* the table load() gives the feature
Loaded == load(feat).df

\* the output of transform() on the loaded table
TransformOutput == transform(feat, Loaded).df

\* the output table of the i-th before-transform on the loaded table
BeforeOutput(i) == apply(feat.before_transforms[i], Loaded).df

\* the output columns of the before-transforms, in registration order
OutputColumns ==
    [i \in 1..Len(feat.before_transforms) |->
        feat.before_transforms[i].output_column]

\* every row of transform()'s output is in the table load_transform
\* returned, and its rows hold nothing else in the columns of that output
RowsKept ==
    /\ \A r \in 1..Len(TransformOutput.rows) :
          \E k \in 1..Len(lt.df.rows) :
             SubSeq(lt.df.rows[k], 1, Len(TransformOutput.columns))
                 = TransformOutput.rows[r]
    /\ \A k \in 1..Len(lt.df.rows) :
          SubSeq(lt.df.rows[k], 1, Len(TransformOutput.columns))
              \in Range(TransformOutput.rows)

\* the column names after the first i before-transforms are merged on: a
\* new column keeps its name unless the table already has a column of that
\* name; then the old one takes the suffix _x and the new one _y
RECURSIVE MergedColumns(_)
MergedColumns(i) ==
    IF i = 0 THEN TransformOutput.columns
    ELSE IF OutputColumns[i] \in Range(MergedColumns(i - 1))
    THEN [p \in 1..Len(MergedColumns(i - 1)) |->
             IF MergedColumns(i - 1)[p] = OutputColumns[i]
             THEN OutputColumns[i] \o "_x"
             ELSE MergedColumns(i - 1)[p]]
         \o <<OutputColumns[i] \o "_y">>
    ELSE Append(MergedColumns(i - 1), OutputColumns[i])

\* C9 as stated: load_transform returns transform()'s output with every row
\* kept and with the output column of each before-transform present.
C9_OutputColumnsPresent ==
    (lt.called /\ lt.ok) =>
        /\ RowsKept
        /\ \A i \in 1..Len(OutputColumns) : HasCol(lt.df, OutputColumns[i])

\* C9, what load_transform does: it returns transform()'s output left-merged
\* on AGS with the output table of each before-transform in registration
\* order: every row of transform()'s output is kept; each before-transform
\* adds one column, after those already there, that holds for every row the
\* value its output table has for the row's AGS; the column has the
\* transform's output-column name unless a column of that name is already
\* there, and then the old column is named <name>_x and the new one <name>_y.
C9_LeftMergedInOrder ==
    (lt.called /\ lt.ok) =>
        /\ RowsKept
        /\ lt.df.columns = MergedColumns(Len(OutputColumns))
        /\ Len(lt.df.columns)
               = Len(TransformOutput.columns) + Len(OutputColumns)
        /\ \A i \in 1..Len(OutputColumns) :
              \A k \in 1..Len(lt.df.rows) :
                 \E q \in 1..Len(BeforeOutput(i).rows) :
                    /\ BeforeOutput(i).rows[q][1]
                           = lt.df.rows[k][ColIndex(TransformOutput, "AGS")]
                    /\ BeforeOutput(i).rows[q][2]
                           = lt.df.rows[k][Len(TransformOutput.columns) + i]

\* C10: a call of load_transform leaves the feature as it was, its
\* before_transforms and the source it reads included, and returns what
\* the call before it returned.
C10_LoadTransformIdempotent ==
    [][(calls' = calls + 1) =>
          /\ feat' = feat
          /\ feat'.before_transforms = feat.before_transforms
          /\ feat'.data = feat.data
          /\ feat_config' = feat_config
          /\ lt.called =>
                (lt'.ok = lt.ok /\ lt'.df = lt.df /\ lt'.err = lt.err)]_vars

\* C10, the case: load_transform was called twice on a municipalities
\* feature with a before-transform and returned a table with rows
C10_Witness ==
    /\ calls = 2
    /\ lt.called
    /\ lt.ok
    /\ feat.cls = "MunicipalityFeature"
    /\ Len(feat.before_transforms) >= 1
    /\ Len(lt.df.rows) >= 1

(***************************************************************************)
(* Properties of apply on a transform (SpecApply).                         *)
(***************************************************************************)
\* a declared input column is absent from the frame handed to apply
InputColumnAbsent ==
    \E i \in 1..Len(fe_transform.input_columns) :
        fe_transform.input_columns[i] \notin Range(fe_df.columns)

\* the subtype hook of the transform returns false
HookRejects == fe_transform.cls = "Subtype" /\ ~fe_transform.hook

\* C11: apply raises the validation error whenever a declared input column
\* is absent from the frame or the subtype hook returns false, and then the
\* transformation body has not run: nothing is returned and the caller's
\* frame is as it was; in every other case the body runs.
C11_ApplyValidatesFirst ==
    fe_applied.called =>
        IF InputColumnAbsent \/ HookRejects
        THEN /\ ~fe_applied.ok
             /\ fe_applied.err.type = "ValueError"
             /\ ~fe_applied.ran
             /\ fe_applied.df = NoFrame
             /\ fe_applied.arg = fe_df
        ELSE fe_applied.ran

\* apply has refused a frame that has every input column, on the hook alone
C11_Witness ==
    /\ fe_applied.called
    /\ ~InputColumnAbsent
    /\ fe_transform.input_columns # <<>>
    /\ HookRejects
    /\ fe_df.rows # <<>>
    /\ fe_applied.err.type = "ValueError"

(***************************************************************************)
(* Properties of the filters (SpecFilter).                                 *)
(***************************************************************************)
UseFeatures == training_config.feature_filtering.use_features

OmitFeatures == training_config.feature_filtering.omit_features

Filtered == features_filtered.called

Kept == features_filtered.df

\* the pattern compiles and its expression matches the whole name
MatchesName(pattern, name) ==
    /\ compile_pattern(pattern).ok
    /\ fullmatch(compile_pattern(pattern), name)

\* what the k-th pattern of a list contributes over a set of columns: the
\* column of that very name if no earlier pattern contributed it, and
\* otherwise the columns it matches that no earlier pattern contributed
RECURSIVE Contribution(_, _, _)
RECURSIVE Earlier(_, _, _)
Contribution(cols, patterns, k) ==
    IF patterns[k] \in cols \ Earlier(cols, patterns, k)
    THEN {patterns[k]}
    ELSE {c \in cols \ Earlier(cols, patterns, k) :
            MatchesName(patterns[k], c)}

Earlier(cols, patterns, k) ==
    UNION {Contribution(cols, patterns, j) : j \in 1..(k - 1)}

\* the columns a list of patterns resolves to
ResolvedSet(cols, patterns) == Earlier(cols, patterns, Len(patterns) + 1)

\* the columns use_features leaves
SelectedSet ==
    IF UseFeatures = <<>> THEN Range(data.columns)
    ELSE ResolvedSet(Range(data.columns), UseFeatures)

\* the columns omit_features resolves against them
OmittedSet == ResolvedSet(SelectedSet, OmitFeatures)

\* the pattern of use_features that contributes the column
PickIndex(c) ==
    CHOOSE k \in 1..Len(UseFeatures) :
        c \in Contribution(Range(data.columns), UseFeatures, k)

\* pattern-match order: by contributing pattern, then by place in the table
Before(c, d) ==
    IF UseFeatures = <<>> THEN ColIndex(data, c) < ColIndex(data, d)
    ELSE \/ PickIndex(c) < PickIndex(d)
         \/ /\ PickIndex(c) = PickIndex(d)
            /\ ColIndex(data, c) < ColIndex(data, d)

\* C12: filter_features returns the columns that use_features resolves to
\* (every column when it is empty), in pattern-match order and each once,
\* without the columns that omit_features resolves to against them; the
\* kept columns keep their relative order, and every kept column holds, row
\* by row, the cells it holds in the input.
C12_FilterFeaturesResolves ==
    Filtered =>
        /\ features_filtered.ok
        /\ Range(Kept.columns) = SelectedSet \ OmittedSet
        /\ IsUnique(Kept.columns)
        /\ \A i, j \in 1..Len(Kept.columns) :
              i < j => Before(Kept.columns[i], Kept.columns[j])
        /\ Len(Kept.rows) = Len(data.rows)
        /\ \A r \in 1..Len(Kept.rows) :
              /\ Len(Kept.rows[r]) = Len(Kept.columns)
              /\ \A c \in 1..Len(Kept.columns) :
                    Kept.rows[r][c]
                        = data.rows[r][ColIndex(data, Kept.columns[c])]

\* both lists have acted: use_features left some columns out, two patterns
\* overlapped, omit_features removed a column, and two columns are kept
C12_Witness ==
    /\ Filtered
    /\ UseFeatures # <<>>
    /\ SelectedSet # Range(data.columns)
    /\ \E c \in SelectedSet :
          \E k \in 1..Len(UseFeatures) :
             /\ MatchesName(UseFeatures[k], c)
             /\ c \notin Contribution(Range(data.columns), UseFeatures, k)
    /\ OmittedSet # {}
    /\ Len(Kept.columns) >= 2

\* use_features is one glob pattern prefix*, the prefix free of the
\* characters of expressions and of *, and nothing is omitted
OnePrefixGlob ==
    /\ Len(UseFeatures) = 1
    /\ OmitFeatures = <<>>
    /\ UseFeatures[1] # <<>>
    /\ UseFeatures[1][Len(UseFeatures[1])] = "*"
    /\ \A k \in 1..(Len(UseFeatures[1]) - 1) :
          UseFeatures[1][k] \notin regex_meta \cup {"*"}

Prefix == SubSeq(UseFeatures[1], 1, Len(UseFeatures[1]) - 1)

StartsWith(name, prefix) ==
    /\ Len(name) >= Len(prefix)
    /\ SubSeq(name, 1, Len(prefix)) = prefix

\* C13 as stated: with use_features the one glob pattern prefix*,
\* filter_features keeps exactly the columns whose name starts with prefix,
\* the column named prefix included, in table order.
C13_GlobKeepsPrefixed ==
    (Filtered /\ OnePrefixGlob) =>
        Kept.columns
            = SelectSeq(data.columns, LAMBDA c : StartsWith(c, Prefix))

\* C13, what filter_features does with the one glob pattern prefix*: when a
\* column is named prefix* itself, that column alone is kept; otherwise the
\* columns kept are those whose name starts with prefix and has no line
\* break after it, in table order.
C13_GlobKeepsPrefixedOnOneLine ==
    (Filtered /\ OnePrefixGlob) =>
        Kept.columns
            = IF HasCol(data, UseFeatures[1]) THEN <<UseFeatures[1]>>
              ELSE SelectSeq(data.columns,
                             LAMBDA c :
                                /\ StartsWith(c, Prefix)
                                /\ \A k \in (Len(Prefix) + 1)..Len(c) :
                                      c[k] # "\n")

\* the row filter has the omit_rows mapping that filter_rows reads
HasOmitRows == "omit_rows" \in DOMAIN training_config.row_filtering

\* the omit_rows mapping of the configuration, empty when it has none
ConfiguredOmitRows ==
    IF HasOmitRows THEN training_config.row_filtering.omit_rows ELSE <<>>

\* the rows that hold, in a configured column of the table, a value that
\* is not null and whose text one of that column's patterns matches whole
Omitted ==
    {r \in 1..Len(data.rows) :
        \E e \in 1..Len(ConfiguredOmitRows) :
            /\ HasCol(data, ConfiguredOmitRows[e].column)
            /\ ~IsNull(data.rows[r][ColIndex(data, ConfiguredOmitRows[e].column)])
            /\ \E q \in 1..Len(ConfiguredOmitRows[e].patterns) :
                  MatchesName(ConfiguredOmitRows[e].patterns[q],
                              data.rows[r][ColIndex(data, ConfiguredOmitRows[e].column)])}

\* C14 as stated: filter_rows returns the rows of the input, in their
\* order and with every column, except exactly the rows that hold in a
\* configured column of the table a non-null value whose text one of the
\* column's patterns matches whole; a configured column that the table
\* lacks removes no row, and an empty mapping removes none.
C14_FilterRowsOmitsMatching ==
    rows_filtered.called =>
        /\ rows_filtered.ok
        /\ rows_filtered.df
              = Frame(data.columns, Without(data.rows, Omitted, 1))

\* C14, for a row filter that was given an omit_rows mapping: the rows
\* returned are as stated.
C14_FilterRowsWithMapping ==
    (rows_filtered.called /\ HasOmitRows) =>
        /\ rows_filtered.ok
        /\ rows_filtered.df
              = Frame(data.columns, Without(data.rows, Omitted, 1))

\* the patterns that the warnings of a kind name
Warned(kind) ==
    UNION {features_filtered.warnings[w].about :
             w \in {v \in 1..Len(features_filtered.warnings) :
                       features_filtered.warnings[v].kind = kind}}

\* the patterns of a list that are no column of cols and match none
UnmatchedPatterns(cols, patterns) ==
    {q \in Range(patterns) :
        q \notin cols /\ \A c \in cols : ~MatchesName(q, c)}

\* C15 as stated: every pattern of use_features or omit_features that ends
\* up selecting no column is named by a warning, and no error is raised.
C15_EveryIdlePatternWarns ==
    Filtered =>
        /\ features_filtered.ok
        /\ \A k \in 1..Len(UseFeatures) :
              Contribution(Range(data.columns), UseFeatures, k) = {}
                  => UseFeatures[k] \in Warned("use_features")
        /\ \A k \in 1..Len(OmitFeatures) :
              Contribution(SelectedSet, OmitFeatures, k) = {}
                  => OmitFeatures[k] \in Warned("omit_features")

\* C15 amended: the patterns named by a warning are exactly those that
\* match no column of the table they are resolved against, neither as its
\* name nor by the compiled pattern (a pattern that does not compile
\* matches none); no error is raised, and the columns kept are those the
\* other patterns resolve to.
C15_UnmatchedPatternWarns ==
    Filtered =>
        /\ features_filtered.ok
        /\ Warned("use_features")
              = UnmatchedPatterns(Range(data.columns), UseFeatures)
        /\ Warned("omit_features")
              = UnmatchedPatterns(SelectedSet, OmitFeatures)
        /\ UseFeatures # <<>> =>
              Range(Kept.columns)
                  = ResolvedSet(Range(data.columns),
                        SelectSeq(UseFeatures,
                                  LAMBDA q : q \notin Warned("use_features")))
                    \ ResolvedSet(SelectedSet,
                          SelectSeq(OmitFeatures,
                                    LAMBDA q :
                                       q \notin Warned("omit_features")))

\* a pattern of each list matched nothing and was warned about, while
\* another pattern of the same list selected, or removed, a column
C15_Witness ==
    /\ Filtered
    /\ Len(UseFeatures) = 2
    /\ Len(OmitFeatures) = 2
    /\ Warned("use_features") # {}
    /\ Warned("omit_features") # {}
    /\ OmittedSet # {}
    /\ Kept.columns # <<>>

\* C16: with use_features and omit_features both empty, filter_features
\* returns a frame equal to its input, the same columns in the same order
\* and the same rows, and warns about nothing.
C16_EmptyFilterReturnsInput ==
    (Filtered /\ UseFeatures = <<>> /\ OmitFeatures = <<>>) =>
        /\ features_filtered.ok
        /\ Kept = data
        /\ features_filtered.warnings = <<>>

\* filter_features has returned a table of three columns under empty lists
C16_Witness ==
    /\ Filtered
    /\ UseFeatures = <<>>
    /\ OmitFeatures = <<>>
    /\ Len(data.columns) >= 3
    /\ Kept.columns = data.columns
    /\ Kept.rows # <<>>


(***************************************************************************)
(* Properties of Homogeneity (SpecHomogeneity).                            *)
(***************************************************************************)
\* the grouping keys of the table handed to apply
InputKeys ==
    IF HasCol(hom_df, "AGS")
    THEN {hom_df.rows[r][ColIndex(hom_df, "AGS")] :
              r \in 1..Len(hom_df.rows)} \ {Null}
    ELSE {}

GroupSize(ags) == Len(group_rows(hom_df, ags))

\* the rows of the returned table that carry a key
OutputRows(ags) ==
    IF HasCol(hom_out.df, "AGS")
    THEN {r \in 1..Len(hom_out.df.rows) :
              hom_out.df.rows[r][ColIndex(hom_out.df, "AGS")] = ags}
    ELSE {}

OutputValue(r) == hom_out.df.rows[r][2]

\* C18 (as stated): apply on a table that has its input columns returns a
\* table with exactly one row per grouping key of the input, and the row of
\* a group of one row has nan in the output column.
C18_OneRowPerKey ==
    (hom_out.called /\ validate(hom_self, hom_df)) =>
        /\ hom_out.ok
        /\ \A ags \in InputKeys :
              /\ Cardinality(OutputRows(ags)) = 1
              /\ GroupSize(ags) = 1 =>
                    \A r \in OutputRows(ags) :
                       /\ Len(hom_out.df.rows[r]) >= 2
                       /\ OutputValue(r).nan

\* the coefficient of variation of a column over a group is undefined: the
\* column is passed over, or _weighted_cv answers nan
UndefinedCV(ags, col) ==
    With(column_values(hom_df, group_rows(hom_df, ags), hom_self.weight_column),
         LAMBDA weights :
            With(column_values(hom_df, group_rows(hom_df, ags), col),
                 LAMBDA values :
                    \/ ~sum_positive(weights)
                    \/ all_zero(values)
                    \/ weighted_cv(values, weights).cv.nan))

\* C19 (as stated): apply on a table that has the input columns and the
\* weight column raises nothing, and for every group of at least 2 rows the
\* value of its row is nan exactly when the coefficient of variation of
\* every input column is undefined.
C19_UndefinedIffAllUndefined ==
    (/\ hom_out.called
     /\ validate(hom_self, hom_df)
     /\ HasCol(hom_df, hom_self.weight_column)) =>
        \A ags \in InputKeys :
            GroupSize(ags) >= 2 =>
                /\ hom_out.ok
                /\ Cardinality(OutputRows(ags)) = 1
                /\ \A r \in OutputRows(ags) :
                      /\ Len(hom_out.df.rows[r]) >= 2
                      /\ OutputValue(r).nan <=>
                            \A c \in 1..Len(hom_self.input_columns) :
                                UndefinedCV(ags, hom_self.input_columns[c])

\* the loop over the input columns of a group of at least 2 rows raises
\* nothing when the columns are there: zero weights and zero values are
\* passed over before _weighted_cv is called
C19_ColumnsNeverRaise ==
    (/\ validate(hom_self, hom_df)
     /\ HasCol(hom_df, hom_self.weight_column)) =>
        \A ags \in InputKeys :
            group_cvs(hom_self, hom_df, group_rows(hom_df, ags),
                      column_values(hom_df, group_rows(hom_df, ags),
                                    hom_self.weight_column),
                      1, <<>>).ok

\* sums over the arrays handed to _weighted_cv
RECURSIVE SumSeq(_)
SumSeq(q) == IF q = <<>> THEN 0 ELSE Head(q) + SumSeq(Tail(q))

TotalWeight == SumSeq([i \in 1..Len(cv_weights) |-> cv_weights[i][1]])

WeightedTotal ==
    SumSeq([i \in 1..Len(cv_values) |-> cv_weights[i][1] * cv_values[i][1]])

\* the total weight times the weighted sum of the squared deviations, each
\* deviation scaled by the total weight
ScaledDeviations ==
    SumSeq([i \in 1..Len(cv_values) |->
               cv_weights[i][1]
               * (cv_values[i][1] * TotalWeight - WeightedTotal)
               * (cv_values[i][1] * TotalWeight - WeightedTotal)])

\* C20: for values and weights whose weighted mean is nonzero, _weighted_cv
\* returns the square root of the weighted average of the squared deviations
\* from the weighted mean, divided by the weighted mean: its sign is the
\* sign of the mean and its square is that average over the squared mean;
\* for values 90, 100, 110 with equal weights it lies between 0.0815 and
\* 0.0817.
C20_WeightedCVFormula ==
    (/\ cv_out.called
     /\ TotalWeight # 0
     /\ WeightedTotal # 0) =>
        /\ cv_out.ok
        /\ ~cv_out.cv.nan
        /\ cv_out.cv.sign = Sign(WeightedTotal) * Sign(TotalWeight)
        /\ cv_out.cv.sq = Rat(ScaledDeviations,
                              TotalWeight * WeightedTotal * WeightedTotal)
        /\ (/\ cv_values = <<Num(90), Num(100), Num(110)>>
            /\ cv_weights[1] = cv_weights[2]
            /\ cv_weights[2] = cv_weights[3]) =>
               /\ cv_out.cv.sign = 1
               /\ 815 * 815 * cv_out.cv.sq.den < 100000000 * cv_out.cv.sq.num
               /\ 100000000 * cv_out.cv.sq.num < 817 * 817 * cv_out.cv.sq.den

\* _weighted_cv returned for 90, 100, 110 with unequal weights
C20_Witness ==
    /\ cv_out.called
    /\ cv_out.ok
    /\ cv_values = <<Num(90), Num(100), Num(110)>>
    /\ cv_weights = <<Num(1), Num(2), Num(1)>>
    /\ cv_out.cv = Real(1, Rat(1, 200))


(***************************************************************************)
(* Properties of the written file (Spec).                                  *)
(***************************************************************************)
\* the calls of to_csv among the calls of the last build_matrix
Saves(trace) == SelectSeq(trace, LAMBDA e : e.op = "to_csv")

\* C21: a build_matrix call that raises leaves the file at output_path as it
\* was; a call that returns writes the file only when save_output is set,
\* as its last step, and the file is then the to_csv text of the returned
\* matrix, the missing-value policy applied; without save_output the file is
\* left as it was.
C21_SavedLastAndOnlyOnSuccess ==
    [][/\ ~out'.ok => file' = file
       /\ (out'.ok /\ ~config.matrix.save_output) =>
             /\ file' = file
             /\ Saves(out'.trace) = <<>>
       /\ (out'.ok /\ config.matrix.save_output) =>
             /\ file'.written
             /\ file'.content = to_csv(out'.df)
             /\ out'.df = handle_missing_values(out'.merged, config.matrix)
             /\ Saves(out'.trace) = <<Event("to_csv", 0, out'.df)>>
             /\ out'.trace[Len(out'.trace)] = Event("to_csv", 0, out'.df)]_vars

\* a matrix was returned and saved whose rows the policy changed: the file
\* differs from the text of the merged frame
C21_Witness ==
    /\ out.called
    /\ out.ok
    /\ config.matrix.save_output
    /\ file.written
    /\ file.content = to_csv(out.df)
    /\ to_csv(out.merged) # to_csv(out.df)


(***************************************************************************)
(* Properties of build_matrix on an empty feature set (Spec).              *)
(***************************************************************************)
NoFeaturesLoaded == Err("ValueError", "No features loaded", "", "")

\* C22: a build_matrix call on a builder whose loaded feature set is empty
\* raises the "no features loaded" error, makes no call of load_transform,
\* the base feature's included, and leaves the builder and the file as they
\* were.
C22_NoFeaturesLoaded ==
    [][(pc = "constructed" /\ features = <<>> /\ out'.called) =>
          /\ ~out'.ok
          /\ out'.err = NoFeaturesLoaded
          /\ out'.trace = <<>>
          /\ out'.df = NoFrame
          /\ municipalities' = municipalities
          /\ features' = features
          /\ file' = file]_vars

\* the base feature resolved, both listed features failed resolution, and
\* build_matrix was called
C22_Witness ==
    /\ pc = "constructed"
    /\ Len(config.features) = 2
    /\ \A i \in 1..2 : config.features[i].resolves # "ok"
    /\ features = <<>>
    /\ out.called
    /\ out.err = NoFeaturesLoaded


(***************************************************************************)
(* Properties of the order of load_transform (SpecFeature).                *)
(***************************************************************************)
\* the before-transforms whose validation the loaded table fails
FailingValidation(feature, df) ==
    {i \in 1..Len(feature.before_transforms) :
        ~validate(feature.before_transforms[i], df)}

\* the least member of a nonempty set of numbers
Least(S) == CHOOSE i \in S : \A j \in S : i <= j

\* the calls a load_transform on feature made, whose load returned df, are
\* in the order of C23
OrderedCalls(feature, df, call) ==
    /\ call.trace # <<>>
    /\ call.trace[1].op = "load"
    /\ \A j \in 2..Len(call.trace) :
          /\ call.trace[j].df = df
          /\ IF j <= Len(feature.before_transforms) + 1
             THEN call.trace[j] = Event("apply", j - 1, df)
             ELSE /\ j = Len(feature.before_transforms) + 2
                  /\ call.trace[j] = Event("transform", 0, df)
    /\ call.ok => Len(call.trace) = Len(feature.before_transforms) + 2
    /\ FailingValidation(feature, df) # {} =>
          /\ ~call.ok
          /\ Len(call.trace) <= Least(FailingValidation(feature, df)) + 1
          /\ IF Len(call.trace) = Least(FailingValidation(feature, df)) + 1
             THEN call.err.type = "ValueError"
             ELSE ~apply(feature.before_transforms[Len(call.trace) - 1],
                         df).ok

\* C23: in every load_transform call whose load returns a table, load is
\* the first call made, the before-transforms are then applied in
\* registration order, each to the table as load returned it, and transform
\* is called after all of them on that same table; when a before-transform
\* fails validation the call raises, and neither transform nor a later
\* before-transform is called.
C23_LoadThenTransformsThenTransform ==
    [][(calls' = calls + 1 /\ load(feat).ok) =>
          OrderedCalls(feat, load(feat).df, lt')]_vars

\* of two before-transforms the first fails validation: the call raised
\* after load and one apply
C23_Witness ==
    /\ lt.called
    /\ ~lt.ok
    /\ Len(feat.before_transforms) = 2
    /\ load(feat).ok
    /\ 1 \in FailingValidation(feat, load(feat).df)
    /\ Len(lt.trace) = 2
    /\ lt.trace[2] = Event("apply", 1, load(feat).df)


(***************************************************************************)
(* Properties of the namespaced column names (Spec).                       *)
(***************************************************************************)
\* the names of the loaded features are pairwise distinct
DistinctFeatureNames ==
    IsUnique([i \in 1..Len(features) |-> features[i].name])

\* C24 (as stated): when build_matrix returns a matrix from features with
\* pairwise distinct names, the columns of the base table and the namespaced
\* columns of the features are pairwise distinct, and the matrix has exactly
\* these columns: none is suffixed or overwritten.
C24_NoCollidingColumn ==
    (Built /\ DistinctFeatureNames) =>
        /\ IsUnique(MergedNames)
        /\ out.df.columns = MergedNames


(***************************************************************************)
(* Further properties of the filters (SpecFilter).                         *)
(***************************************************************************)
\* the columns the k-th pattern of a list adds to those of the patterns
\* before it
Added(columns, patterns, k) ==
    Range(resolve_feature_patterns(columns, SubSeq(patterns, 1, k)).matched)
    \ Range(resolve_feature_patterns(columns,
                                     SubSeq(patterns, 1, k - 1)).matched)

\* the columns that step 2 of filter_features resolves omit_features against
SelectedColumns == select_requested(data, UseFeatures).df.columns

\* C25 (as stated): a pattern of use_features or omit_features that is the
\* name of a column of the table it is resolved against adds no column but
\* that one, wherever it stands in its list; so a use_features list of
\* column names alone keeps exactly the named columns.
C25_ExactNameOnlyContribution ==
    Filtered =>
        /\ \A k \in 1..Len(UseFeatures) :
              UseFeatures[k] \in Range(data.columns) =>
                  Added(data.columns, UseFeatures, k) \subseteq {UseFeatures[k]}
        /\ \A k \in 1..Len(OmitFeatures) :
              OmitFeatures[k] \in Range(SelectedColumns) =>
                  Added(SelectedColumns, OmitFeatures, k)
                      \subseteq {OmitFeatures[k]}
        /\ (/\ UseFeatures # <<>>
            /\ OmitFeatures = <<>>
            /\ Range(UseFeatures) \subseteq Range(data.columns)) =>
               Range(Kept.columns) = Range(UseFeatures)

\* a pattern that is a column name adds no other column when it stands in
\* its list for the first time
C25_FirstOccurrenceOnly ==
    Filtered =>
        \A k \in 1..Len(UseFeatures) :
            (/\ UseFeatures[k] \in Range(data.columns)
             /\ \A j \in 1..(k - 1) : UseFeatures[j] # UseFeatures[k]
             /\ UseFeatures[k]
                    \notin Range(resolve_feature_patterns(
                                     data.columns,
                                     SubSeq(UseFeatures, 1, k - 1)).matched)) =>
                Added(data.columns, UseFeatures, k) = {UseFeatures[k]}

\* the pattern holds a character that makes it an expression
HasMeta(pattern) == \E k \in 1..Len(pattern) : pattern[k] \in regex_meta

\* the name matches the glob as a whole: * stands for any run of the
\* characters of any, every other character for itself
RECURSIVE GlobMatch(_, _, _)
GlobMatch(pattern, name, any) ==
    IF pattern = <<>> THEN name = <<>>
    ELSE IF Head(pattern) = "*"
    THEN \/ GlobMatch(Tail(pattern), name, any)
         \/ /\ name # <<>>
            /\ any[Head(name)]
            /\ GlobMatch(pattern, Tail(name), any)
    ELSE /\ name # <<>>
         /\ Head(name) = Head(pattern)
         /\ GlobMatch(Tail(pattern), Tail(name), any)

AnyCharacter == [ch \in STRING |-> TRUE]

AnyButLineBreak == [ch \in STRING |-> ch # "\n"]

\* the patterns of the two lists
ListedFeaturePatterns == Range(UseFeatures) \cup Range(OmitFeatures)

\* C26 (as stated): a pattern with one of the characters . ^ $ [ ] ( ) + ?
\* | { } \ is compiled as it is written and must match the whole name; any
\* other pattern compiles and matches a name exactly when the name matches
\* it as a glob in which * stands for zero or more characters of any kind.
C26_RegexOrGlob ==
    Filtered =>
        \A pattern \in ListedFeaturePatterns :
            IF HasMeta(pattern)
            THEN /\ compile_pattern(pattern).ok = re_compile(pattern).ok
                 /\ compile_pattern(pattern).items = re_compile(pattern).items
            ELSE /\ compile_pattern(pattern).ok
                 /\ \A name \in Range(data.columns) :
                       fullmatch(compile_pattern(pattern), name)
                           <=> GlobMatch(pattern, name, AnyCharacter)

\* what _compile_pattern does with a glob: * stands for zero or more
\* characters other than a line break
C26_GlobOnOneLine ==
    Filtered =>
        \A pattern \in ListedFeaturePatterns :
            ~HasMeta(pattern) =>
                /\ compile_pattern(pattern).ok
                /\ \A name \in Range(data.columns) :
                      fullmatch(compile_pattern(pattern), name)
                          <=> GlobMatch(pattern, name, AnyButLineBreak)

\* the cell of a row of the table in the column of an omit_rows entry
EntryCell(r, e) == data.rows[r][ColIndex(data, ConfiguredOmitRows[e].column)]

\* an entry of omit_rows whose column holds in the row a value that is not
\* null and that one of the entry's patterns matches
EntryRemoves(r, e) ==
    /\ HasCol(data, ConfiguredOmitRows[e].column)
    /\ ~IsNull(EntryCell(r, e))
    /\ \E q \in 1..Len(ConfiguredOmitRows[e].patterns) :
          MatchesName(ConfiguredOmitRows[e].patterns[q], EntryCell(r, e))

\* C27: when filter_rows returns, the rows it removed each hold, in some
\* configured column, a value that is not null and that a pattern of that
\* column matches: a null value never removes its row, whatever the patterns
\* of its column are.
C27_NullNeverRemoves ==
    (rows_filtered.called /\ rows_filtered.ok) =>
        \E removed \in SUBSET (1..Len(data.rows)) :
            /\ rows_filtered.df.rows = Without(data.rows, removed, 1)
            /\ \A r \in removed :
                  \E e \in 1..Len(ConfiguredOmitRows) : EntryRemoves(r, e)

\* the column k has the one pattern .* or nan; a row whose k is null was
\* kept and another row was removed
C27_Witness ==
    /\ rows_filtered.called
    /\ rows_filtered.ok
    /\ HasOmitRows
    /\ Len(ConfiguredOmitRows) = 1
    /\ ConfiguredOmitRows[1].column = <<"k">>
    /\ ConfiguredOmitRows[1].patterns = << <<".", "*">> >>
    /\ Len(data.rows) = 2
    /\ IsNull(data.rows[1][1])
    /\ ~IsNull(data.rows[2][1])
    /\ rows_filtered.df.rows = <<data.rows[1]>>


(***************************************************************************)
(* Properties of load_transform around Homogeneity (SpecHomogeneity).      *)
(***************************************************************************)
\* C28 (as stated): when the table passes the validation of the Homogeneity
\* before-transform and its apply returns, the table returned has the
\* column AGS and load_transform returns: the merge does not fail, also
\* when every group of the table has fewer than 2 rows.
C28_EngineeredTableHasJoinKey ==
    (/\ hom_lt.called
     /\ validate(hom_self, hom_df)
     /\ hom_lt.applied) =>
        /\ HasCol(hom_lt.engineered, "AGS")
        /\ hom_lt.ok

\* when the merge of load_transform is reached, the join loop raises
\* KeyError exactly for a table returned without the column AGS
C28_MergeFailsWithoutJoinKey ==
    (hom_lt.called /\ hom_lt.applied) =>
        /\ hom_lt.ok <=> HasCol(hom_lt.engineered, "AGS")
        /\ ~hom_lt.ok => hom_lt.err.type = "KeyError"
        /\ \A ags \in InputKeys : GroupSize(ags) < 2
        /\ hom_lt.engineered = NoFrame

\* the orders a sequence can be put in
Orderings(q) ==
    {[i \in 1..Len(q) |-> q[f[i]]] :
        f \in {g \in [1..Len(q) -> 1..Len(q)] :
                  \A i, k \in 1..Len(q) : i # k => g[i] # g[k]}}

\* the mappings with the entries of omit_rows in any order, the patterns of
\* each entry in any order
Reorderings(omit_rows) ==
    UNION {{m \in [1..Len(entries) -> [column : {e.column : e \in Range(entries)},
                                       patterns : UNION {Orderings(e.patterns) :
                                                            e \in Range(entries)}]] :
               \A i \in 1..Len(entries) :
                  /\ m[i].column = entries[i].column
                  /\ m[i].patterns \in Orderings(entries[i].patterns)} :
           entries \in Orderings(omit_rows)}

\* C29: the table filter_rows returns for a mapping is the table it returns
\* for the mapping with its entries in any other order and the patterns of
\* every entry in any other order.
C29_OrderOfOmitRowsIrrelevant ==
    (rows_filtered.called /\ HasOmitRows) =>
        \A m \in Reorderings(ConfiguredOmitRows) :
            With(filter_rows(data,
                             TrainingConfig(training_config.feature_filtering,
                                            RowFilteringWith(m))),
                 LAMBDA other :
                    /\ other.ok = rows_filtered.ok
                    /\ other.df = rows_filtered.df)

\* two entries, for the columns k and l, removed one row each of a table
\* of three rows; the mapping can be written in another order
C29_Witness ==
    /\ rows_filtered.called
    /\ rows_filtered.ok
    /\ HasOmitRows
    /\ Len(ConfiguredOmitRows) = 2
    /\ Cardinality(Reorderings(ConfiguredOmitRows)) >= 2
    /\ Len(data.rows) >= 2
    /\ Len(rows_filtered.df.rows) = Len(data.rows) - 2
    /\ \E r \in 1..Len(data.rows) : EntryRemoves(r, 1) /\ ~EntryRemoves(r, 2)
    /\ \E r \in 1..Len(data.rows) : EntryRemoves(r, 2) /\ ~EntryRemoves(r, 1)

\* filter_features applied to its own result under the same configuration
FilteredAgain == filter_features(features_filtered.df, training_config)

\* C30: filter_features applied again, with the same use_features and
\* omit_features, to the frame it returned returns a frame equal to it: the
\* same columns in the same order, the same rows.
C30_FilterFeaturesIdempotent ==
    features_filtered.called =>
        /\ FilteredAgain.ok
        /\ FilteredAgain.df = features_filtered.df

\* the patterns of the two lists of the feature filter
FilterPatterns ==
    Range(training_config.feature_filtering.use_features)
        \cup Range(training_config.feature_filtering.omit_features)

\* a pattern that is the name of a column of the table matches, compiled,
\* that column and no other
NamesAreLiteral ==
    \A pattern \in FilterPatterns \cap Range(data.columns) :
        /\ compile_pattern(pattern).ok
        /\ \A name \in Range(data.columns) :
              fullmatch(compile_pattern(pattern), name) <=> name = pattern

\* idempotence where the exact-name branch and the compiled pattern select
\* the same columns
C30_IdempotentWhenNamesAreLiteral ==
    (features_filtered.called /\ NamesAreLiteral) =>
        /\ FilteredAgain.ok
        /\ FilteredAgain.df = features_filtered.df

\* a pattern list with a column name and a glob selected some columns,
\* another dropped some of them, and columns were left
C30_Witness ==
    /\ features_filtered.called
    /\ NamesAreLiteral
    /\ training_config.feature_filtering.use_features # <<>>
    /\ training_config.feature_filtering.omit_features # <<>>
    /\ FilterPatterns \cap Range(data.columns) # {}
    /\ FilterPatterns \ Range(data.columns) # {}
    /\ features_filtered.df.columns # <<>>
    /\ Len(features_filtered.df.columns) < Len(data.columns)
    /\ Range(features_filtered.df.columns)
           # Range(select_requested(data,
                    training_config.feature_filtering.use_features).df.columns)

====
